---- MODULE Spec2Model ----
(***************************************************************************)
(* A model of NewtonM2Parser (modules/drivers/gnss/parser/                 *)
(* newtonm2_parser.cc): the framing loop of GetMessage, the checksum test, *)
(* the dispatch of PrepareMessage and the decode handlers.                 *)
(*                                                                         *)
(* The wire is a sequence of units.  One unit stands for one field of the  *)
(* wire format: the three sync bytes, each header field the parser reads   *)
(* (message id, message length, week, milliseconds), each body field a     *)
(* handler reads, and each of the four checksum bytes.  Header and body    *)
(* fields that no handler reads are left out, so the two header layouts    *)
(* and the message bodies are shorter than on the real wire but keep their *)
(* order, their distinct sizes and their distinct field offsets.           *)
(***************************************************************************)
EXTENDS Integers, Sequences, FiniteSets, TLC

(***************************************************************************)
(* Wire constants and layouts (newtonm2_messages.h).                       *)
(***************************************************************************)
SYNC_0 == 170
SYNC_1 == 68
SYNC_2_LONG_HEADER == 18
SYNC_2_SHORT_HEADER == 19
CRC_LENGTH == 4

\* sizeof(newtonm2::LongHeader): sync[3], header_length, message_id,
\* message_length, gps_week, gps_millisecs.
SizeofLongHeader == 8
\* sizeof(newtonm2::ShortHeader): sync[3], message_length, message_id,
\* gps_week, gps_millisecs.
SizeofShortHeader == 7

\* newtonm2::MessageId
BESTGNSSPOS == 1429
BESTGNSSVEL == 1430
BESTPOS == 42
BESTVEL == 99
CORRIMUDATA == 812
CORRIMUDATAS == 813
INSCOV == 264
INSCOVS == 320
INSPVA == 507
INSPVAS == 508
INSPVAX == 1465
PSRPOS == 47
PSRVEL == 100
RAWIMU == 268
RAWIMUS == 325
RAWIMUX == 1461
RAWIMUSX == 1462
BDSEPHEMERIS == 1696
GLOEPHEMERIS == 723
GPSEPHEMERIS == 7
RANGE == 43
HEADING == 971

\* sizeof of each message body, in units (the fields the handlers read).
SizeofBestPos == 6
SizeofBestVel == 5
SizeofCorrImuData == 8
SizeofInsCov == 3
SizeofInsPva == 12
SizeofRawImuX == 9
SizeofRawImu == 8
SizeofInsPvaX == 2
SizeofBdsEphemeris == 5
SizeofGpsEphemeris == 4
SizeofGloEphemeris == 6
SizeofHeading == 4

SECONDS_PER_WEEK == 604800

\* newtonm2::SolutionStatus::SOL_COMPUTED and newtonm2::DatumId::WGS84.
SOL_COMPUTED == 0

\* Field offsets in the buffer (1-based).
LongHeaderFields == [message_id |-> 5, message_length |-> 6, gps_week |-> 7, gps_millisecs |-> 8]
ShortHeaderFields == [message_length |-> 4, message_id |-> 5, gps_week |-> 6, gps_millisecs |-> 7]

(***************************************************************************)
(* Helpers the parser calls.                                               *)
(***************************************************************************)
RECURSIVE WeightedSum(_, _)
WeightedSum(s, n) == IF n = 0 THEN 0 ELSE n * s[n] + WeightedSum(s, n - 1)

\* crc32_block(buffer, l): a checksum word of the first l units (a
\* position-weighted sum stands for the CRC polynomial).
crc32_block(s, l) == (WeightedSum(s, l) + l) % 2147483647

\* The four bytes of a checksum word in memory, least significant first.
U32Bytes(c) == << c % 256, (c \div 256) % 256, (c \div 65536) % 256, (c \div 16777216) % 256 >>

\* *reinterpret_cast<uint32_t*>(buffer + off) == c: the four units at off
\* are the bytes of c.
WordAtIs(s, off, c) == SubSeq(s, off + 1, off + 4) = U32Bytes(c)

is_zero(x) == x = 0

\* rfu_to_flu(r, f, u, flu): flu.x = f, flu.y = -r, flu.z = u.
rfu_to_flu(r, f, u) == [x |-> f, y |-> 0 - r, z |-> u]

\* azimuth_deg_to_yaw_rad: yaw = (90 - azimuth) degrees wrapped into
\* (-180, 180], kept in degrees with the radian conversion as a tag.
azimuth_deg_to_yaw_rad(azimuth) ==
    LET d == 90 - azimuth
        w == IF d > 180 THEN d - 360 ELSE IF d <= -180 THEN d + 360 ELSE d
    IN  [rad_of_deg |-> w]

\* x * DEG_TO_RAD.
DegToRad(x) == [rad_of_deg |-> x]

\* week * SECONDS_PER_WEEK + millisecs * 1e-3: whole seconds and the
\* milliseconds beyond them.
HeaderSeconds(gps_week, gps_millisecs) ==
    [s |-> gps_week * SECONDS_PER_WEEK + gps_millisecs \div 1000, ms |-> gps_millisecs % 1000]

\* The measurement time 0.0 of a record no handler has written.
ZeroSeconds == [s |-> 0, ms |-> 0]

\* week * SECONDS_PER_WEEK + gps_seconds, in seconds.
BodySeconds(gps_week, gps_seconds) == gps_week * SECONDS_PER_WEEK + gps_seconds

(***************************************************************************)
(* config::ImuType and newtonm2::GetImuParameter: the per-device table of  *)
(* gyro scale, accelerometer scale and sampling rate; a device the table   *)
(* does not know has a zero entry.                                         *)
(***************************************************************************)
ImuTypes == {"IMAR_FSAS", "ADIS16488", "UNKNOWN_IMU"}

GetImuParameter(imu_type) ==
    CASE imu_type = "IMAR_FSAS" -> [gyro_scale |-> 2, accel_scale |-> 3, sampling_rate_hz |-> 200]
      [] imu_type = "ADIS16488" -> [gyro_scale |-> 5, accel_scale |-> 7, sampling_rate_hz |-> 125]
      [] OTHER -> [gyro_scale |-> 0, accel_scale |-> 0, sampling_rate_hz |-> 0]

\* 1.0 / sampling_rate_hz, in microseconds.
SpanOfRate(hz) == 1000000 \div hz

(***************************************************************************)
(* The parser's members other than the frame accumulator: the output       *)
(* records (protobuf messages, every field at its default), the            *)
(* calibration state, the cached statuses and the configuration.           *)
(***************************************************************************)
Vec0 == [x |-> 0, y |-> 0, z |-> 0]

\* SolutionType codes grouped as the switch of HandleBestPos groups them.
SingleCodes == {16, 53}
PsrDiffCodes == {17, 18, 52}
RtkFloatCodes == {4, 32, 33, 34, 51, 55}
RtkIntegerCodes == {5, 6, 48, 49, 50, 56}
PppCodes == {20, 57, 58, 59, 64, 65, 68, 69, 73, 74}
PropagatedCodes == {19}

\* InsStatus codes grouped as the switch of HandleInsPva groups them.
InsGoodCodes == {3, 7}
InsConvergingCodes == {1, 2, 6}

\* A covariance array: FLOAT_NAN after construction, then the values of a frame.
FloatNaN == [nan |-> TRUE, v |-> 0]
Cov(v) == [nan |-> FALSE, v |-> v]

NewParser(imu_type, frame_mapping) ==
    [ bestpos_ |-> [sol_status |-> 0, sol_type |-> 0, latitude |-> 0, longitude |-> 0,
                    height_msl |-> 0, undulation |-> 0, measurement_time |-> ZeroSeconds],
      gnss_ |-> [position |-> [lon |-> 0, lat |-> 0, height |-> 0],
                 solution_status |-> 0, position_type |-> 0, type |-> "INVALID",
                 measurement_time |-> ZeroSeconds,
                 has_velocity_latency |-> FALSE, velocity_latency |-> 0,
                 linear_velocity |-> [speed |-> 0, yaw |-> [rad_of_deg |-> 0], z |-> 0]],
      ins_ |-> [linear_acceleration |-> Vec0, angular_velocity |-> Vec0,
                measurement_time |-> 0, header_stamped |-> FALSE,
                position |-> [lon |-> 0, lat |-> 0, height |-> 0],
                euler_angles |-> [x |-> DegToRad(0), y |-> DegToRad(0), z |-> DegToRad(0)],
                linear_velocity |-> Vec0, type |-> "INVALID",
                position_covariance |-> FloatNaN, euler_angles_covariance |-> FloatNaN,
                linear_velocity_covariance |-> FloatNaN],
      imu_ |-> [measurement_span |-> 0, measurement_time |-> 0,
                linear_acceleration |-> Vec0, angular_velocity |-> Vec0],
      ins_stat_ |-> [timestamp |-> ZeroSeconds, ins_status |-> 0, pos_type |-> 0],
      gnss_ephemeris_ |-> [gnss_type |-> "UNSET",
                           has_keppler_orbit |-> FALSE,
                           keppler_orbit |-> [gnss_type |-> "UNSET", gnss_time_type |-> "UNSET",
                                              sat_prn |-> 0, week_num |-> 0, toe |-> 0,
                                              health |-> 0],
                           has_glonass_orbit |-> FALSE,
                           glonass_orbit |-> [gnss_type |-> "UNSET", gnss_time_type |-> "UNSET",
                                              slot_prn |-> 0,
                                              frequency_no |-> 0, week_num |-> 0, toe |-> 0,
                                              health |-> 0, position_x |-> 0]],
      heading_ |-> [solution_status |-> 0, position_type |-> 0, heading |-> 0, pitch |-> 0,
                    measurement_time |-> ZeroSeconds],
      gnss_observation_ |-> [sat_obs_num |-> 0, sat_obs |-> << >>],
      gyro_scale_ |-> 0,
      accel_scale_ |-> 0,
      imu_measurement_hz_ |-> 200,
      imu_measurement_span_ |-> SpanOfRate(200),
      imu_measurement_time_previous_ |-> -1,
      solution_status_ |-> -1,
      position_type_ |-> -1,
      velocity_type_ |-> -1,
      ins_status_ |-> -1,
      imu_type_ |-> imu_type,
      imu_frame_mapping_ |-> frame_mapping ]

\* What a handler hands back: the members after it ran, and its bool.
Handled(p, ready) == [st |-> p, ready |-> ready]

(***************************************************************************)
(* The decode handlers.  Each takes the members p and the message body     *)
(* (the units after the header) and returns the members after the call     *)
(* with the handler's bool.                                                *)
(***************************************************************************)
\* BestPos: solution_status, position_type, latitude, longitude, height_msl,
\* undulation.
HandleGnssBestpos(p, pos, gps_week, gps_millisecs) ==
    Handled([p EXCEPT !.bestpos_ =
                [sol_status |-> pos[1], sol_type |-> pos[2], latitude |-> pos[3],
                 longitude |-> pos[4], height_msl |-> pos[5], undulation |-> pos[6],
                 measurement_time |-> HeaderSeconds(gps_week, gps_millisecs)]],
            TRUE)

\* The switch of HandleBestPos taken whatever the solution status.
GnssTypeOfAnyStatus(solution_status, position_type) ==
    CASE position_type \in SingleCodes -> "SINGLE"
      [] position_type \in PsrDiffCodes -> "PSRDIFF"
      [] position_type \in RtkFloatCodes -> "RTK_FLOAT"
      [] position_type \in RtkIntegerCodes -> "RTK_INTEGER"
      [] position_type \in PppCodes -> "PPP"
      [] position_type \in PropagatedCodes -> "PROPAGATED"
      [] OTHER -> "INVALID"

\* The switch over pos->position_type inside HandleBestPos.
GnssTypeOf(solution_status, position_type) ==
    IF solution_status = SOL_COMPUTED
    THEN CASE position_type \in SingleCodes -> "SINGLE"
           [] position_type \in PsrDiffCodes -> "PSRDIFF"
           [] position_type \in RtkFloatCodes -> "RTK_FLOAT"
           [] position_type \in RtkIntegerCodes -> "RTK_INTEGER"
           [] position_type \in PppCodes -> "PPP"
           [] position_type \in PropagatedCodes -> "PROPAGATED"
           [] OTHER -> "INVALID"
    ELSE "INVALID"

\* TimeReady without the comparison.
TimeReadyAlways(stored, seconds) == TRUE

\* The closing test with its sense inverted.
TimeReadyInverted(stored, seconds) == stored # seconds

\* The closing test of the timestamp-gated handlers: a new time is stored
\* and the handler answers false, an equal time answers true.
TimeReady(stored, seconds) == stored = seconds

\* HandleBestPos with the height taken from height_msl alone.
HandleBestPosNoUndulation(p, pos, gps_week, gps_millisecs) ==
    LET seconds == HeaderSeconds(gps_week, gps_millisecs)
        g1 == [p.gnss_ EXCEPT
                 !.position = [lon |-> pos[4], lat |-> pos[3], height |-> pos[5]],
                 !.solution_status = pos[1],
                 !.position_type = IF pos[1] = SOL_COMPUTED THEN pos[2] ELSE 0,
                 !.type = GnssTypeOf(pos[1], pos[2])]
        ready == TimeReady(p.gnss_.measurement_time, seconds)
    IN  Handled([p EXCEPT !.gnss_ = [g1 EXCEPT !.measurement_time = seconds],
                          !.solution_status_ = pos[1],
                          !.position_type_ = pos[2]],
                ready)

\* Lines 382-461.
HandleBestPos(p, pos, gps_week, gps_millisecs) ==
    LET seconds == HeaderSeconds(gps_week, gps_millisecs)
        g1 == [p.gnss_ EXCEPT
                 !.position = [lon |-> pos[4], lat |-> pos[3], height |-> pos[5] + pos[6]],
                 !.solution_status = pos[1],
                 !.position_type = IF pos[1] = SOL_COMPUTED THEN pos[2] ELSE 0,
                 !.type = GnssTypeOf(pos[1], pos[2])]
        ready == TimeReady(p.gnss_.measurement_time, seconds)
    IN  Handled([p EXCEPT !.gnss_ = [g1 EXCEPT !.measurement_time = seconds],
                          !.solution_status_ = pos[1],
                          !.position_type_ = pos[2]],
                ready)

\* HandleBestVel writing into a cleared record.
HandleBestVelClears(p, vel, gps_week, gps_millisecs) ==
    LET seconds == HeaderSeconds(gps_week, gps_millisecs)
        g1 == [NewParser(p.imu_type_, p.imu_frame_mapping_).gnss_ EXCEPT
                 !.has_velocity_latency = TRUE,
                 !.velocity_latency = vel[2],
                 !.linear_velocity = [speed |-> vel[3],
                                      yaw |-> azimuth_deg_to_yaw_rad(vel[4]),
                                      z |-> vel[5]]]
        ready == TimeReady(p.gnss_.measurement_time, seconds)
    IN  Handled([p EXCEPT !.gnss_ = [g1 EXCEPT !.measurement_time = seconds],
                          !.velocity_type_ = vel[1]],
                ready)

\* BestVel: velocity_type, latency, horizontal_speed, track_over_ground,
\* vertical_speed.  The velocity is kept in polar form (speed, yaw).
HandleBestVel(p, vel, gps_week, gps_millisecs) ==
    LET seconds == HeaderSeconds(gps_week, gps_millisecs)
        g1 == [p.gnss_ EXCEPT
                 !.has_velocity_latency = TRUE,
                 !.velocity_latency = vel[2],
                 !.linear_velocity = [speed |-> vel[3],
                                      yaw |-> azimuth_deg_to_yaw_rad(vel[4]),
                                      z |-> vel[5]]]
        ready == TimeReady(p.gnss_.measurement_time, seconds)
    IN  Handled([p EXCEPT !.gnss_ = [g1 EXCEPT !.measurement_time = seconds],
                          !.velocity_type_ = vel[1]],
                ready)

\* HandleCorrImuData keeping its time as the time of the previous sample.
HandleCorrImuDataKeepsTime(p, imu) ==
    LET seconds == BodySeconds(imu[1], imu[2])
        hz == p.imu_measurement_hz_
        i1 == [p.ins_ EXCEPT
                 !.linear_acceleration = rfu_to_flu(imu[6] * hz, imu[7] * hz, imu[8] * hz),
                 !.angular_velocity = rfu_to_flu(imu[3] * hz, imu[4] * hz, imu[5] * hz)]
        ready == TimeReady(p.ins_.measurement_time, seconds)
    IN  Handled([p EXCEPT !.ins_ = [i1 EXCEPT !.measurement_time = seconds,
                                               !.header_stamped = @ \/ ready],
                          !.imu_measurement_time_previous_ = seconds],
                ready)

\* CorrImuData: gps_week, gps_seconds, x/y/z_angle_change,
\* x/y/z_velocity_change.
HandleCorrImuData(p, imu) ==
    LET seconds == BodySeconds(imu[1], imu[2])
        hz == p.imu_measurement_hz_
        i1 == [p.ins_ EXCEPT
                 !.linear_acceleration = rfu_to_flu(imu[6] * hz, imu[7] * hz, imu[8] * hz),
                 !.angular_velocity = rfu_to_flu(imu[3] * hz, imu[4] * hz, imu[5] * hz)]
        ready == TimeReady(p.ins_.measurement_time, seconds)
    IN  Handled([p EXCEPT !.ins_ = [i1 EXCEPT !.measurement_time = seconds,
                                               !.header_stamped = @ \/ ready]],
                ready)

\* HandleInsCov answering true.
HandleInsCovReady(p, cov) ==
    Handled([p EXCEPT !.ins_ = [@ EXCEPT !.position_covariance = Cov(cov[1]),
                                         !.euler_angles_covariance = Cov(cov[2]),
                                         !.linear_velocity_covariance = Cov(cov[3])]],
            TRUE)

\* InsCov: position_covariance, attitude_covariance, velocity_covariance.
HandleInsCov(p, cov) ==
    Handled([p EXCEPT !.ins_ = [@ EXCEPT !.position_covariance = Cov(cov[1]),
                                         !.euler_angles_covariance = Cov(cov[2]),
                                         !.linear_velocity_covariance = Cov(cov[3])]],
            FALSE)

\* InsPva: gps_week, gps_seconds, latitude, longitude, height,
\* north_velocity, east_velocity, up_velocity, roll, pitch, azimuth, status.
HandleInsPva(p, pva) ==
    LET seconds == BodySeconds(pva[1], pva[2])
        i1 == [p.ins_ EXCEPT
                 !.position = [lon |-> pva[4], lat |-> pva[3], height |-> pva[5]],
                 !.euler_angles = [x |-> DegToRad(pva[9]), y |-> DegToRad(0 - pva[10]),
                                   z |-> azimuth_deg_to_yaw_rad(pva[11])],
                 !.linear_velocity = [x |-> pva[7], y |-> pva[6], z |-> pva[8]],
                 !.type = IF pva[12] \in InsGoodCodes THEN "GOOD"
                          ELSE IF pva[12] \in InsConvergingCodes THEN "CONVERGING"
                          ELSE "INVALID"]
        ready == TimeReady(p.ins_.measurement_time, seconds)
    IN  Handled([p EXCEPT !.ins_ = [i1 EXCEPT !.measurement_time = seconds,
                                               !.header_stamped = @ \/ ready],
                          !.ins_status_ = pva[12]],
                ready)

\* InsPvaX: ins_status, pos_type.
HandleInsPvax(p, pvax, gps_week, gps_millisecs) ==
    Handled([p EXCEPT !.ins_stat_ = [timestamp |-> HeaderSeconds(gps_week, gps_millisecs),
                                     ins_status |-> pvax[1], pos_type |-> pvax[2]]],
            TRUE)

\* The switch over imu_frame_mapping_ shared by the two raw-inertial
\* handlers: the record after the axis mapping, or unchanged for a selector
\* that is neither 5 nor 6 (the default branch only logs).
ImuFrameMapping(imu_rec, frame_mapping, xv, yv_neg, zv, xa, ya_neg, za, accel_scale, gyro_scale) ==
    CASE frame_mapping = 5 ->
           [imu_rec EXCEPT
              !.linear_acceleration =
                  rfu_to_flu(xv * accel_scale, (0 - yv_neg) * accel_scale, zv * accel_scale),
              !.angular_velocity =
                  rfu_to_flu(xa * gyro_scale, (0 - ya_neg) * gyro_scale, za * gyro_scale)]
      [] frame_mapping = 6 ->
           [imu_rec EXCEPT
              !.linear_acceleration =
                  rfu_to_flu((0 - yv_neg) * accel_scale, xv * accel_scale, (0 - zv) * accel_scale),
              !.angular_velocity =
                  rfu_to_flu((0 - ya_neg) * gyro_scale, xa * gyro_scale, (0 - za) * gyro_scale)]
      [] OTHER -> imu_rec

\* RawImuX: imu_error, gps_week, gps_seconds, z_velocity_change,
\* y_velocity_change_neg, x_velocity_change, z_angle_change,
\* y_angle_change_neg, x_angle_change.
HandleRawImuX(p, imu) ==
    LET param == GetImuParameter(p.imu_type_)
        unset == is_zero(p.gyro_scale_)
    IN  IF unset /\ is_zero(param.sampling_rate_hz)
        THEN Handled(p, FALSE)
        ELSE LET c == IF unset
                      THEN [p EXCEPT
                              !.gyro_scale_ = param.gyro_scale * param.sampling_rate_hz,
                              !.accel_scale_ = param.accel_scale * param.sampling_rate_hz,
                              !.imu_measurement_hz_ = param.sampling_rate_hz,
                              !.imu_measurement_span_ = SpanOfRate(param.sampling_rate_hz),
                              !.imu_.measurement_span = SpanOfRate(param.sampling_rate_hz)]
                      ELSE p
                 time == BodySeconds(imu[2], imu[3])
                 i1 == [c.imu_ EXCEPT !.measurement_time = time]
             IN  Handled([c EXCEPT
                            !.imu_ = ImuFrameMapping(i1, c.imu_frame_mapping_,
                                                     imu[6], imu[5], imu[4], imu[9], imu[8], imu[7],
                                                     c.accel_scale_, c.gyro_scale_),
                            !.imu_measurement_time_previous_ = time],
                         TRUE)

\* RawImu: gps_week, gps_seconds, z_velocity_change, y_velocity_change_neg,
\* x_velocity_change, z_angle_change, y_angle_change_neg, x_angle_change.
\* The scales are locals of the handler: the members are read, never set.
HandleRawImu(p, imu) ==
    LET param == GetImuParameter(p.imu_type_)
        unset == is_zero(p.gyro_scale_)
    IN  IF unset /\ is_zero(param.sampling_rate_hz)
        THEN Handled(p, FALSE)
        ELSE LET gyro_scale == IF unset THEN param.gyro_scale * param.sampling_rate_hz
                               ELSE p.gyro_scale_
                 accel_scale == IF unset THEN param.accel_scale * param.sampling_rate_hz
                                ELSE p.accel_scale_
                 imu_measurement_span == IF unset THEN SpanOfRate(param.sampling_rate_hz)
                                         ELSE p.imu_measurement_span_
                 time == BodySeconds(imu[1], imu[2])
                 i1 == [p.imu_ EXCEPT !.measurement_span = imu_measurement_span,
                                      !.measurement_time = time]
             IN  Handled([p EXCEPT
                            !.imu_ = ImuFrameMapping(i1, p.imu_frame_mapping_,
                                                     imu[5], imu[4], imu[3], imu[8], imu[7], imu[6],
                                                     accel_scale, gyro_scale),
                            !.imu_measurement_time_previous_ = time],
                         TRUE)

\* GPS_Ephemeris: prn, week, toe, health.
HandleGpsEph(p, gps_emph) ==
    Handled([p EXCEPT !.gnss_ephemeris_ =
                [@ EXCEPT !.gnss_type = "GPS_SYS",
                          !.has_keppler_orbit = TRUE,
                          !.keppler_orbit = [gnss_type |-> "GPS_SYS", gnss_time_type |-> "GPS_TIME",
                                             sat_prn |-> gps_emph[1], week_num |-> gps_emph[2],
                                             toe |-> gps_emph[3], health |-> gps_emph[4]]]],
            TRUE)

\* BDS_Ephemeris: satellite_id, week, toe, health1, health2 (not read).
HandleBdsEph(p, bds_emph) ==
    Handled([p EXCEPT !.gnss_ephemeris_ =
                [@ EXCEPT !.gnss_type = "BDS_SYS",
                          !.has_keppler_orbit = TRUE,
                          !.keppler_orbit = [gnss_type |-> "BDS_SYS", gnss_time_type |-> "BDS_TIME",
                                             sat_prn |-> bds_emph[1], week_num |-> bds_emph[2],
                                             toe |-> bds_emph[3], health |-> bds_emph[4]]]],
            TRUE)

\* GLO_Ephemeris: sloto, freqo, e_week, e_time, health, pos_x.
HandleGloEph(p, glo_emph) ==
    Handled([p EXCEPT !.gnss_ephemeris_ =
                [@ EXCEPT !.gnss_type = "GLO_SYS",
                          !.has_glonass_orbit = TRUE,
                          !.glonass_orbit = [gnss_type |-> "GLO_SYS", gnss_time_type |-> "GLO_TIME",
                                             slot_prn |-> glo_emph[1] - 37,
                                             frequency_no |-> glo_emph[2] - 7,
                                             week_num |-> glo_emph[3],
                                             toe |-> glo_emph[4] \div 1000,
                                             health |-> IF glo_emph[5] <= 3 THEN 0 ELSE 1,
                                             position_x |-> glo_emph[6]]]],
            TRUE)

\* Heading: solution_status, position_type, heading, pitch.
HandleHeading(p, heading, gps_week, gps_millisecs) ==
    Handled([p EXCEPT !.heading_ =
                [solution_status |-> heading[1], position_type |-> heading[2],
                 heading |-> heading[3], pitch |-> heading[4],
                 measurement_time |-> HeaderSeconds(gps_week, gps_millisecs)]],
            TRUE)

(***************************************************************************)
(* The raw-observation handler.  The bit-level sub-decoder (input_oem4,    *)
(* satsys, gnss_sys_type, gnss_baud_id) is an external collaborator: it is *)
(* fed the whole frame and reports a complete epoch at the last unit of a  *)
(* long-header frame.  One body unit is one satellite of the epoch:        *)
(* 100 * system + 10 * prn + number of bands with a carrier phase.         *)
(***************************************************************************)
NFREQ_NEXOBS == 3

SatSystem(u) == u \div 100
SatPrn(u) == (u \div 10) % 10
SatBands(u) == u % 10

\* gnss_sys_type: the output constellation of a decoder system code, or
\* "NONE" when the output taxonomy has none.
gnss_sys_type(sys) ==
    CASE sys = 1 -> "GPS_SYS"
      [] sys = 4 -> "GLO_SYS"
      [] sys = 8 -> "GAL_SYS"
      [] sys = 32 -> "BDS_SYS"
      [] OTHER -> "NONE"

\* gnss_baud_id succeeds for the bands 0 .. BandCount(type) - 1.
BandCount(gnss_type) ==
    CASE gnss_type = "GPS_SYS" -> 3
      [] gnss_type = "BDS_SYS" -> 3
      [] gnss_type = "GLO_SYS" -> 2
      [] OTHER -> 0

Min(a, b) == IF a < b THEN a ELSE b

\* The inner loop over j: it stops at the first band without a carrier
\* phase or without a band id, and j is then stored as band_obs_num.
BandObs(u, gnss_type) ==
    LET j == Min(Min(SatBands(u), BandCount(gnss_type)), NFREQ_NEXOBS)
    IN  [sat_prn |-> SatPrn(u), sat_sys |-> gnss_type, band_obs_num |-> j,
         band_obs |-> [k \in 1 .. j |-> k - 1]]

\* The outer loop over i: it breaks at the first satellite whose system
\* gnss_sys_type rejects.
RECURSIVE SatObs(_, _)
SatObs(obs, i) ==
    IF i > Len(obs) \/ gnss_sys_type(SatSystem(obs[i])) = "NONE"
    THEN << >>
    ELSE << BandObs(obs[i], gnss_sys_type(SatSystem(obs[i]))) >> \o SatObs(obs, i + 1)

DecodeGnssObservation(p, buf) ==
    IF buf[3] = SYNC_2_LONG_HEADER
    THEN LET obs == SubSeq(buf, SizeofLongHeader + 1, Len(buf) - CRC_LENGTH)
         IN  Handled([p EXCEPT !.gnss_observation_ =
                         [sat_obs_num |-> Len(obs), sat_obs |-> SatObs(obs, 1)]],
                     TRUE)
    ELSE Handled(p, FALSE)

(***************************************************************************)
(* check_crc and PrepareMessage.                                           *)
(***************************************************************************)
\* check_crc accepting every frame.
check_crc_accepts(buf) == TRUE

\* Lines 140-144: the trailing word against crc32_block of what precedes it.
check_crc(buf) ==
    LET l == Len(buf) - CRC_LENGTH
    IN  WordAtIs(buf, l, crc32_block(buf, l))

\* The header fields PrepareMessage reads, by the layout buffer_[2] selects.
HeaderOf(buf) ==
    LET long == buf[3] = SYNC_2_LONG_HEADER
        f == IF long THEN LongHeaderFields ELSE ShortHeaderFields
    IN  [message |-> SubSeq(buf, (IF long THEN SizeofLongHeader ELSE SizeofShortHeader) + 1,
                            Len(buf) - CRC_LENGTH),
         gps_week |-> buf[f.gps_week],
         gps_millisecs |-> buf[f.gps_millisecs],
         message_id |-> buf[f.message_id],
         message_length |-> buf[f.message_length]]

MessageTypes == {"NONE", "BEST_GNSS_POS", "GNSS", "INS", "IMU", "INS_STAT", "BDSEPHEMERIDES",
                 "GPSEPHEMERIDES", "GLOEPHEMERIDES", "OBSERVATION", "HEADING"}

\* Prepared returning the type whatever the handler answered.
PreparedIgnoresReady(h, type) == [st |-> h.st, type |-> type]

\* What PrepareMessage hands back: the members after it ran and the
\* message type it returns.
Prepared(h, type) == [st |-> h.st, type |-> IF h.ready THEN type ELSE "NONE"]

\* LengthOk without the comparison.
LengthOkAny(message_length, size) == TRUE

\* The length test at the head of each case of the dispatch switch.
LengthOk(message_length, size) == message_length = size

\* The default branch taken as the INSPVAX case.
DispatchDefaultAsInsPvax(p, h) ==
    Prepared(HandleInsPvax(p, h.message, h.gps_week, h.gps_millisecs), "INS_STAT")

\* Lines 343-347: an id with no case breaks out of the switch; no handler
\* is called and NONE is returned.
DispatchDefault(p, h) == [st |-> p, type |-> "NONE"]

\* The dispatch switch of PrepareMessage, entered once check_crc passed.
Dispatch(p, buf) ==
    LET h == HeaderOf(buf)
        id == h.message_id
        len == h.message_length
        m == h.message
        w == h.gps_week
        ms == h.gps_millisecs
        none == [st |-> p, type |-> "NONE"]
    IN  CASE id = BESTGNSSPOS ->
               IF LengthOk(len, SizeofBestPos)
               THEN Prepared(HandleGnssBestpos(p, m, w, ms), "BEST_GNSS_POS") ELSE none
          [] id \in {BESTPOS, PSRPOS} ->
               IF LengthOk(len, SizeofBestPos)
               THEN Prepared(HandleBestPos(p, m, w, ms), "GNSS") ELSE none
          [] id \in {BESTGNSSVEL, BESTVEL, PSRVEL} ->
               IF LengthOk(len, SizeofBestVel)
               THEN Prepared(HandleBestVel(p, m, w, ms), "GNSS") ELSE none
          [] id \in {CORRIMUDATA, CORRIMUDATAS} ->
               IF LengthOk(len, SizeofCorrImuData)
               THEN Prepared(HandleCorrImuData(p, m), "INS") ELSE none
          [] id \in {INSCOV, INSCOVS} ->
               IF LengthOk(len, SizeofInsCov)
               THEN Prepared(HandleInsCov(p, m), "INS") ELSE none
          [] id \in {INSPVA, INSPVAS} ->
               IF LengthOk(len, SizeofInsPva)
               THEN Prepared(HandleInsPva(p, m), "INS") ELSE none
          [] id \in {RAWIMUX, RAWIMUSX} ->
               IF LengthOk(len, SizeofRawImuX)
               THEN Prepared(HandleRawImuX(p, m), "IMU") ELSE none
          [] id \in {RAWIMU, RAWIMUS} ->
               IF LengthOk(len, SizeofRawImu)
               THEN Prepared(HandleRawImu(p, m), "IMU") ELSE none
          [] id = INSPVAX ->
               IF LengthOk(len, SizeofInsPvaX)
               THEN Prepared(HandleInsPvax(p, m, w, ms), "INS_STAT") ELSE none
          [] id = BDSEPHEMERIS ->
               IF LengthOk(len, SizeofBdsEphemeris)
               THEN Prepared(HandleBdsEph(p, m), "BDSEPHEMERIDES") ELSE none
          [] id = GPSEPHEMERIS ->
               IF LengthOk(len, SizeofGpsEphemeris)
               THEN Prepared(HandleGpsEph(p, m), "GPSEPHEMERIDES") ELSE none
          [] id = GLOEPHEMERIS ->
               IF LengthOk(len, SizeofGloEphemeris)
               THEN Prepared(HandleGloEph(p, m), "GLOEPHEMERIDES") ELSE none
          [] id = RANGE ->
               Prepared(DecodeGnssObservation(p, buf), "OBSERVATION")
          [] id = HEADING ->
               IF LengthOk(len, SizeofHeading)
               THEN Prepared(HandleHeading(p, m, w, ms), "HEADING") ELSE none
          [] OTHER -> DispatchDefault(p, h)

PrepareMessage(p, buf) ==
    IF ~check_crc(buf)
    THEN [st |-> p, type |-> "NONE"]
    ELSE Dispatch(p, buf)

\* The record *message_ptr points to after a return of the given type.
MessageOf(p, type) ==
    CASE type = "BEST_GNSS_POS" -> p.bestpos_
      [] type = "GNSS" -> p.gnss_
      [] type = "INS" -> p.ins_
      [] type = "IMU" -> p.imu_
      [] type = "INS_STAT" -> p.ins_stat_
      [] type \in {"BDSEPHEMERIDES", "GPSEPHEMERIDES", "GLOEPHEMERIDES"} -> p.gnss_ephemeris_
      [] type = "OBSERVATION" -> p.gnss_observation_
      [] type = "HEADING" -> p.heading_
      [] OTHER -> [none |-> TRUE]

(***************************************************************************)
(* The frame accumulator: one iteration of the while loop of GetMessage,   *)
(* on the accumulator (buffer_, header_length_, total_length_), the        *)
(* members p and the unit *data_ under the cursor.  adv is 1 when the      *)
(* iteration advanced data_; type is the value GetMessage returns from     *)
(* inside the loop, "NONE" when the loop goes on.                          *)
(***************************************************************************)
Iterated(buf, hl, tl, p, adv, type) ==
    [buffer_ |-> buf, header_length_ |-> hl, total_length_ |-> tl, st |-> p,
     adv |-> adv, type |-> type]

\* total_length_ as the completed header declares it.
TotalLength(buf, hl) ==
    hl + CRC_LENGTH + (IF hl = SizeofLongHeader THEN buf[LongHeaderFields.message_length]
                       ELSE buf[ShortHeaderFields.message_length])

\* AfterPrepare clearing the buffer and keeping total_length_.
AfterPrepareKeepsLength(buf, tl) == [buffer_ |-> << >>, total_length_ |-> tl]

\* AfterPrepare leaving the dispatched frame in place.
AfterPrepareKeeps(buf, tl) == [buffer_ |-> buf, total_length_ |-> tl]

\* The accumulator after PrepareMessage returned: lines 130-131.
AfterPrepare(buf, tl) == [buffer_ |-> << >>, total_length_ |-> 0]

\* Lines 81-85: looking for SYNC0.
OnSync0(buf, hl, tl, p, b) ==
    IF b = SYNC_0 THEN Iterated(Append(buf, b), hl, tl, p, 1, "NONE")
    ELSE Iterated(buf, hl, tl, p, 1, "NONE")

\* OnSync1 reading past the unit that did not match.
OnSync1Consumes(buf, hl, tl, p, b) ==
    IF b = SYNC_1 THEN Iterated(Append(buf, b), hl, tl, p, 1, "NONE")
    ELSE Iterated(<< >>, hl, tl, p, 1, "NONE")

\* OnSync1 leaving the accumulator as it is on a mismatch.
OnSync1Stays(buf, hl, tl, p, b) ==
    IF b = SYNC_1 THEN Iterated(Append(buf, b), hl, tl, p, 1, "NONE")
    ELSE Iterated(buf, hl, tl, p, 0, "NONE")

\* Lines 86-91: looking for SYNC1; a mismatch clears and leaves the unit.
OnSync1(buf, hl, tl, p, b) ==
    IF b = SYNC_1 THEN Iterated(Append(buf, b), hl, tl, p, 1, "NONE")
    ELSE Iterated(<< >>, hl, tl, p, 0, "NONE")

\* OnSync2 with the two header sizes exchanged.
OnSync2Swapped(buf, hl, tl, p, b) ==
    IF b = SYNC_2_LONG_HEADER
    THEN Iterated(Append(buf, b), SizeofShortHeader, tl, p, 1, "NONE")
    ELSE IF b = SYNC_2_SHORT_HEADER
    THEN Iterated(Append(buf, b), SizeofLongHeader, tl, p, 1, "NONE")
    ELSE Iterated(<< >>, hl, tl, p, 0, "NONE")

\* Lines 92-104: looking for SYNC2, which selects the header layout.
OnSync2(buf, hl, tl, p, b) ==
    IF b = SYNC_2_LONG_HEADER
    THEN Iterated(Append(buf, b), SizeofLongHeader, tl, p, 1, "NONE")
    ELSE IF b = SYNC_2_SHORT_HEADER
    THEN Iterated(Append(buf, b), SizeofShortHeader, tl, p, 1, "NONE")
    ELSE Iterated(<< >>, hl, tl, p, 0, "NONE")

\* OnHeader leaving the header size set once the header is read.
OnHeaderKeepsMarker(buf, hl, tl, p, b) ==
    IF Len(buf) < hl THEN Iterated(Append(buf, b), hl, tl, p, 1, "NONE")
    ELSE IF hl \in {SizeofLongHeader, SizeofShortHeader}
    THEN Iterated(buf, hl, TotalLength(buf, hl), p, 0, "NONE")
    ELSE Iterated(<< >>, 0, tl, p, 0, "NONE")

\* Lines 105-123: working on the header.
OnHeader(buf, hl, tl, p, b) ==
    IF Len(buf) < hl THEN Iterated(Append(buf, b), hl, tl, p, 1, "NONE")
    ELSE IF hl \in {SizeofLongHeader, SizeofShortHeader}
    THEN Iterated(buf, 0, TotalLength(buf, hl), p, 0, "NONE")
    ELSE Iterated(<< >>, 0, tl, p, 0, "NONE")

\* OnBody with the cursor advanced past the unit under it once
\* PrepareMessage has returned.
OnBodySkips(buf, hl, tl, p, b) ==
    IF Len(buf) < tl THEN Iterated(Append(buf, b), hl, tl, p, 1, "NONE")
    ELSE LET r == PrepareMessage(p, buf)
             a == AfterPrepare(buf, tl)
         IN  Iterated(a.buffer_, hl, a.total_length_, r.st, 1, r.type)

\* Lines 124-135: working on the body, then PrepareMessage on the
\* completed frame without reading the unit under the cursor.
OnBody(buf, hl, tl, p, b) ==
    IF Len(buf) < tl THEN Iterated(Append(buf, b), hl, tl, p, 1, "NONE")
    ELSE LET r == PrepareMessage(p, buf)
             a == AfterPrepare(buf, tl)
         IN  Iterated(a.buffer_, hl, a.total_length_, r.st, 0, r.type)

\* The if-else chain of the loop body.  With three or more units buffered
\* and both markers zero no branch applies and nothing changes.
LoopBody(buf, hl, tl, p, b) ==
    IF Len(buf) = 0 THEN OnSync0(buf, hl, tl, p, b)
    ELSE IF Len(buf) = 1 THEN OnSync1(buf, hl, tl, p, b)
    ELSE IF Len(buf) = 2 THEN OnSync2(buf, hl, tl, p, b)
    ELSE IF hl > 0 THEN OnHeader(buf, hl, tl, p, b)
    ELSE IF tl > 0 THEN OnBody(buf, hl, tl, p, b)
    ELSE Iterated(buf, hl, tl, p, 0, "NONE")

(***************************************************************************)
(* The state.  buffer_, header_length_, total_length_ and parser are the   *)
(* members of NewtonM2Parser.  data_ is the range [data_, data_end_) still *)
(* to read and data_set says that Update was ever called (data_ is not     *)
(* nullptr).  pc is the caller's position (inside the loop of GetMessage   *)
(* or outside the call) and ret the value the last call of GetMessage      *)
(* returned.  scen describes the stream the transport delivers, fed is the *)
(* number of its units handed to Update so far and emitted the history of  *)
(* the non-NONE returns.                                                   *)
(***************************************************************************)
VARIABLES buffer_, header_length_, total_length_, parser, data_, data_set, pc, ret,
          fed, emitted, scen

vars == << buffer_, header_length_, total_length_, parser, data_, data_set, pc, ret,
           fed, emitted, scen >>

\* The transport's whole stream.
stream == scen.stream

\* The number of units of the stream the loop has consumed.
Consumed == fed - Len(data_)

(***************************************************************************)
(* The streams the transport delivers.  A frame is described by its header *)
(* layout, message id, time index and kind: "valid", "badcrc" (one         *)
(* checksum byte altered) or "badlen" (one body unit too many, declared    *)
(* and checksummed as such).                                               *)
(***************************************************************************)
MaxTime == 2
MaxGarbage == 3
MaxChunk == 2
LongTail == 14

KnownIds == {BESTGNSSPOS, BESTGNSSVEL, BESTPOS, BESTVEL, CORRIMUDATA, CORRIMUDATAS, INSCOV,
             INSCOVS, INSPVA, INSPVAS, INSPVAX, PSRPOS, PSRVEL, RAWIMU, RAWIMUS, RAWIMUX,
             RAWIMUSX, BDSEPHEMERIS, GLOEPHEMERIS, GPSEPHEMERIS, RANGE, HEADING}
\* The longest corrupted input before the frame of a short stream.
MaxStray == 2
\* The position type codes position frames are drawn from: 0 up to the
\* highest code the switch of HandleBestPos names and one beyond.
MaxPositionType == 75
\* newtonm2::SolutionStatus::INSUFFICIENT_OBS, a status other than SOL_COMPUTED.
INSUFFICIENT_OBS == 1
\* newtonm2::SolutionType::SINGLE.
SINGLE == 16
\* An id of the protocol that the dispatch switch has no case for (MARK1PVA).
UnknownId == 1067

\* buffer_.reserve(BUFFER_SIZE): the capacity reserved at construction, in
\* units of the wire: above every fixed-size frame, below the largest frame
\* a header can declare.
BUFFER_SIZE == 32

\* Time index 0 is the zero timestamp; the others are distinct times.
WeekOf(t) == IF t = 0 THEN 0 ELSE 2200
MillisOf(t) == 100 * t
SecondsOf(t) == 10 * t

BodyOf(id, t) ==
    CASE id \in {BESTGNSSPOS, BESTPOS} -> << SOL_COMPUTED, 16, 37 + t, 122 + t, 10, 25 >>
      [] id = PSRPOS -> << SOL_COMPUTED, 17, 47 + t, 132 + t, 11, 26 >>
      [] id \in {BESTGNSSVEL, BESTVEL, PSRVEL} -> << 8, 1, 3 + t, 120, 1 >>
      [] id \in {CORRIMUDATA, CORRIMUDATAS} -> << WeekOf(t), SecondsOf(t), 1, 2, 3, 4, 5, 6 >>
      [] id \in {INSCOV, INSCOVS} -> << 1 + t, 2, 3 >>
      [] id \in {INSPVA, INSPVAS} ->
           << WeekOf(t), SecondsOf(t), 37, 122, 10, 1, 2, 3, 4, 5, 60, 3 >>
      [] id \in {RAWIMUX, RAWIMUSX} -> << 0, WeekOf(t), SecondsOf(t), 1, 2, 3, 4, 5, 6 >>
      [] id \in {RAWIMU, RAWIMUS} -> << WeekOf(t), SecondsOf(t), 1, 2, 3, 4, 5, 6 >>
      [] id = INSPVAX -> << 3, 56 >>
      [] id = BDSEPHEMERIS -> << 5, WeekOf(t), 1000, 0, 0 >>
      [] id = GPSEPHEMERIS -> << 3, WeekOf(t), 2000, 0 >>
      [] id = GLOEPHEMERIS -> << 40, 9, WeekOf(t), 3000, 4, 77 >>
      [] id = HEADING -> << 0, 50, 45 + t, 2 >>
      [] id = RANGE -> << 132, 213, 421 >>
      [] OTHER -> << 1, 2 >>

HeaderBytes(long, id, len, week, ms) ==
    IF long THEN << SYNC_0, SYNC_1, SYNC_2_LONG_HEADER, SizeofLongHeader, id, len, week, ms >>
    ELSE << SYNC_0, SYNC_1, SYNC_2_SHORT_HEADER, len, id, week, ms >>

WithCrc(pre) == pre \o U32Bytes(crc32_block(pre, Len(pre)))

FrameBytes(f) ==
    LET body == IF f.kind = "badlen" THEN BodyOf(f.id, f.t) \o << 0 >>
                ELSE IF f.kind = "oversize" THEN [i \in 1 .. BUFFER_SIZE |-> 0]
                ELSE IF f.kind \in {"computed", "uncomputed"}
                THEN [BodyOf(f.id, f.t) EXCEPT
                        ![1] = IF f.kind = "computed" THEN SOL_COMPUTED ELSE INSUFFICIENT_OBS,
                        ![2] = f.which]
                ELSE BodyOf(f.id, f.t)
        good == WithCrc(HeaderBytes(f.long, f.id, Len(body), WeekOf(f.t), MillisOf(f.t)) \o body)
        n == Len(good)
    IN  IF f.kind = "badcrc" THEN [good EXCEPT ![n - CRC_LENGTH + f.which] = (@ + 1) % 256]
        ELSE good

\* which is the checksum byte a "badcrc" frame has altered, the position
\* type code of a "computed" or "uncomputed" frame, 0 otherwise.
FrameDesc(long, id, t, kind) ==
    [long |-> long, id |-> id, t |-> t, kind |-> kind, which |-> 0]
BadCrcFrame(long, id, t, which) ==
    [long |-> long, id |-> id, t |-> t, kind |-> "badcrc", which |-> which]
\* A BESTPOS or PSRPOS frame of a solution status and a position type code.
QualityFrame(id, computed, code) ==
    [long |-> TRUE, id |-> id, t |-> 1,
     kind |-> IF computed THEN "computed" ELSE "uncomputed", which |-> code]

\* The ids whose handlers compare times: their frames come at every time.
TimedIds ==
    {BESTGNSSPOS, BESTGNSSVEL, BESTPOS, BESTVEL, PSRPOS, PSRVEL, CORRIMUDATA, CORRIMUDATAS,
     INSPVA, INSPVAS, RAWIMUX}

\* Every valid long-header frame, the short-header form of some, and the
\* damaged forms.
ValidFrames ==
    { FrameDesc(TRUE, id, t, "valid") : id \in TimedIds, t \in 1 .. MaxTime }
    \cup { FrameDesc(TRUE, id, 1, "valid") : id \in (KnownIds \ TimedIds) \cup {UnknownId} }
    \cup { FrameDesc(FALSE, id, t, "valid") : id \in {BESTPOS, HEADING, RANGE, RAWIMUSX}, t \in {1} }
    \cup { FrameDesc(TRUE, id, 0, "valid") : id \in {BESTPOS, BESTVEL} }
DamagedFrames ==
    { FrameDesc(TRUE, id, 1, "badlen") : id \in KnownIds }
    \cup { BadCrcFrame(long, id, 1, 1) : long \in BOOLEAN, id \in {BESTPOS, HEADING, RAWIMUX} }
AllFrames == ValidFrames \cup DamagedFrames

\* The frames that come first in a two-frame stream: one of each record
\* family and of each damaged kind.
FirstFrames ==
    { FrameDesc(TRUE, id, 1, "valid") :
        id \in {BESTPOS, PSRPOS, BESTVEL, BESTGNSSVEL, PSRVEL, CORRIMUDATA, INSPVA, INSCOV,
                RAWIMUX, GPSEPHEMERIS, GLOEPHEMERIS, HEADING, RANGE} }
    \cup { FrameDesc(TRUE, BESTPOS, 0, "valid"), FrameDesc(TRUE, BESTPOS, 1, "badlen") }
    \cup { BadCrcFrame(TRUE, HEADING, 1, which) : which \in 1 .. CRC_LENGTH }
    \cup { BadCrcFrame(FALSE, BESTPOS, 1, 1) }

\* The units corrupted input is drawn from: the sync bytes and another.
GarbageUnits == {SYNC_0, SYNC_1, SYNC_2_LONG_HEADER, SYNC_2_SHORT_HEADER, 0}

RECURSIVE SeqsUpTo(_, _)
SeqsUpTo(S, n) ==
    IF n = 0 THEN { << >> }
    ELSE LET shorter == SeqsUpTo(S, n - 1)
         IN  shorter \cup { Append(q, x) : q \in shorter, x \in S }

\* A scenario: the stream, where each of its frames starts, and the
\* configuration the parser is built with.
Scenario(kind, pre, frames, tail, imu_type, frame_mapping) ==
    LET f1 == FrameBytes(frames[1])
        f2 == IF Len(frames) > 1 THEN FrameBytes(frames[2]) ELSE << >>
    IN  [kind |-> kind,
         pre |-> pre,
         stream |-> pre \o f1 \o f2 \o tail,
         frames |-> frames,
         at |-> << Len(pre), Len(pre) + Len(f1) >>,
         end |-> << Len(pre) + Len(f1), Len(pre) + Len(f1) + Len(f2) >>,
         tail |-> Len(tail),
         imu_type |-> imu_type,
         frame_mapping |-> frame_mapping]

\* Corrupted input, then a valid frame of an always-ready type, then
\* nothing or enough units to complete a long-header candidate frame that
\* began in the corrupted input.
ResyncFrames == { FrameDesc(TRUE, HEADING, 1, "valid"), FrameDesc(FALSE, HEADING, 1, "valid"),
                  FrameDesc(TRUE, INSPVAX, 1, "valid") }
ResyncScenarios ==
    { Scenario("resync", g, << f >>, tail, "ADIS16488", 5) :
        g \in SeqsUpTo(GarbageUnits, MaxGarbage), f \in ResyncFrames,
        tail \in { << >>, [i \in 1 .. LongTail |-> 0] } }

\* A checksum-valid frame of the variable-length id whose header declares a
\* body of BUFFER_SIZE units, and one more unit.
OversizeScenarios ==
    { Scenario("oversize", << >>, << FrameDesc(long, RANGE, 1, "oversize") >>, << 0 >>,
               "ADIS16488", 5) : long \in BOOLEAN }

\* Two frames back to back and one more unit.
PairScenarios ==
    { Scenario("pair", << >>, << f1, f2 >>, << 0 >>, "ADIS16488", 5) :
        f1 \in FirstFrames, f2 \in AllFrames }

\* Short corrupted input, then a HEADING frame, valid or with an altered
\* checksum, and one more unit.
StrayScenarios ==
    { Scenario("stray", g, << f >>, << 0 >>, "ADIS16488", 5) :
        g \in SeqsUpTo(GarbageUnits, MaxStray),
        f \in { FrameDesc(TRUE, HEADING, 1, "valid"), BadCrcFrame(FALSE, HEADING, 1, 1) } }

\* A position frame of every solution status and position type code, then
\* a second one of the same time.
QualityScenarios ==
    { Scenario("quality", << >>, << QualityFrame(BESTPOS, computed, code), f2 >>, << 0 >>,
               "ADIS16488", 5) :
        computed \in BOOLEAN, code \in 0 .. MaxPositionType,
        f2 \in { QualityFrame(PSRPOS, FALSE, SINGLE), QualityFrame(PSRPOS, TRUE, MaxPositionType) } }

\* Raw-inertial frames under every configuration.
ImuFrames == { FrameDesc(TRUE, id, t, "valid") : id \in {RAWIMU, RAWIMUX}, t \in 1 .. MaxTime }
               \cup { FrameDesc(FALSE, id, 1, "valid") : id \in {RAWIMUS, RAWIMUSX} }
ImuScenarios ==
    { Scenario("imu", << >>, << f1, f2 >>, << 0 >>, imu_type, frame_mapping) :
        f1 \in ImuFrames, f2 \in ImuFrames, imu_type \in ImuTypes, frame_mapping \in {5, 6, 7} }

(***************************************************************************)
(* The initial state: a parser as its constructor leaves it, before any    *)
(* Update, and the stream the transport will deliver.                      *)
(***************************************************************************)
InitWith(S) ==
    \E sc \in S :
        /\ scen = sc
        /\ fed = 0
        /\ emitted = << >>
        /\ buffer_ = << >>
        /\ header_length_ = 0
        /\ total_length_ = 0
        /\ parser = NewParser(sc.imu_type, sc.frame_mapping)
        /\ data_ = << >>
        /\ data_set = FALSE
        /\ pc = "idle"
        /\ ret = "NONE"

Init == InitWith(PairScenarios)
InitResync == InitWith(ResyncScenarios \cup OversizeScenarios)
InitImu == InitWith(ImuScenarios)
InitQuality == InitWith(QualityScenarios)
InitStray == InitWith(StrayScenarios)

(***************************************************************************)
(* The actions.                                                            *)
(***************************************************************************)
\* Parser::Update(data, length): a new range of the stream.  The caller
\* hands over the next range once GetMessage has drained the last one.
Update ==
    /\ pc = "idle"
    /\ data_ = << >>
    /\ \E n \in (1 .. MaxChunk) \cup {Len(stream) - fed} :
          /\ n >= 1
          /\ fed + n <= Len(stream)
          /\ data_' = SubSeq(stream, fed + 1, fed + n)
          /\ fed' = fed + n
    /\ data_set' = TRUE
    /\ UNCHANGED << buffer_, header_length_, total_length_, parser, pc, ret, emitted, scen >>

\* GetMessage starting every call from an empty accumulator.
GetMessageFromScratch ==
    /\ pc = "idle"
    /\ ~data_set \/ data_ # << >>
    /\ IF ~data_set
       THEN ret' = "NONE" /\ pc' = pc /\ UNCHANGED << buffer_, header_length_, total_length_ >>
       ELSE /\ pc' = "loop" /\ ret' = ret
            /\ buffer_' = << >> /\ header_length_' = 0 /\ total_length_' = 0
    /\ UNCHANGED << parser, data_, data_set, fed, emitted, scen >>

\* The entry of GetMessage (lines 75-79): NONE at once while data_ is
\* nullptr, else into the loop with the accumulator as the last call left it.
\* The caller calls again after every message and, once NONE came back,
\* not before the next Update.
GetMessage ==
    /\ pc = "idle"
    /\ ~data_set \/ data_ # << >>
    /\ IF ~data_set
       THEN ret' = "NONE" /\ pc' = pc
       ELSE pc' = "loop" /\ ret' = ret
    /\ UNCHANGED << buffer_, header_length_, total_length_, parser, data_, data_set, fed,
                    emitted, scen >>

\* One iteration of the loop, whatever its branch.
Iteration ==
    LET r == LoopBody(buffer_, header_length_, total_length_, parser, Head(data_))
    IN  /\ buffer_' = r.buffer_
        /\ header_length_' = r.header_length_
        /\ total_length_' = r.total_length_
        /\ parser' = r.st
        /\ data_' = IF r.adv = 1 THEN Tail(data_) ELSE data_
        /\ IF r.type # "NONE"
           THEN /\ pc' = "idle"
                /\ ret' = r.type
                /\ emitted' = Append(emitted, [type |-> r.type, at |-> Consumed,
                                               message |-> MessageOf(r.st, r.type)])
           ELSE UNCHANGED << pc, ret, emitted >>
        /\ UNCHANGED << data_set, fed, scen >>

InLoop == pc = "loop" /\ data_ # << >>

\* Lines 81-85.
SeekSync0 == InLoop /\ Len(buffer_) = 0 /\ Iteration
\* Lines 86-91.
SeekSync1 == InLoop /\ Len(buffer_) = 1 /\ Iteration
\* Lines 92-104.
SeekSync2 == InLoop /\ Len(buffer_) = 2 /\ Iteration
\* Lines 105-123.
WorkOnHeader == InLoop /\ Len(buffer_) > 2 /\ header_length_ > 0 /\ Iteration
\* Lines 124-128.
WorkOnBody ==
    /\ InLoop /\ Len(buffer_) > 2 /\ header_length_ = 0 /\ total_length_ > 0
    /\ Len(buffer_) < total_length_
    /\ Iteration
\* Lines 129-134.
CompleteFrame ==
    /\ InLoop /\ Len(buffer_) > 2 /\ header_length_ = 0 /\ total_length_ > 0
    /\ Len(buffer_) >= total_length_
    /\ Iteration
\* Lines 80 and 137: the range is exhausted.
ReturnNone ==
    /\ pc = "loop"
    /\ data_ = << >>
    /\ pc' = "idle"
    /\ ret' = "NONE"
    /\ UNCHANGED << buffer_, header_length_, total_length_, parser, data_, data_set, fed,
                    emitted, scen >>

Next ==
    \/ Update
    \/ GetMessage
    \/ SeekSync0
    \/ SeekSync1
    \/ SeekSync2
    \/ WorkOnHeader
    \/ WorkOnBody
    \/ CompleteFrame
    \/ ReturnNone

\* The caller runs on while the transport has units and a call is due.
Spec == Init /\ [][Next]_vars /\ WF_vars(Next)
SpecResync == InitResync /\ [][Next]_vars /\ WF_vars(Next)
SpecImu == InitImu /\ [][Next]_vars /\ WF_vars(Next)
SpecQuality == InitQuality /\ [][Next]_vars /\ WF_vars(Next)
SpecStray == InitStray /\ [][Next]_vars /\ WF_vars(Next)

\* Every unit has been handed over and read, and the last call returned NONE.
Done == pc = "idle" /\ data_set /\ fed = Len(stream) /\ data_ = << >>

(***************************************************************************)
(* What a stream should produce, read off the scenario.                    *)
(***************************************************************************)
\* The message type each always-ready frame id is reported as.
TypeOfId(id) ==
    CASE id = HEADING -> "HEADING"
      [] id = INSPVAX -> "INS_STAT"
      [] id = GPSEPHEMERIS -> "GPSEPHEMERIDES"
      [] id = BDSEPHEMERIS -> "BDSEPHEMERIDES"
      [] id = GLOEPHEMERIS -> "GLOEPHEMERIDES"
      [] id \in {RAWIMU, RAWIMUS, RAWIMUX, RAWIMUSX} -> "IMU"
      [] id \in {INSCOV, INSCOVS, INSPVA, INSPVAS, CORRIMUDATA, CORRIMUDATAS} -> "INS"
      [] id = RANGE -> "OBSERVATION"
      [] id = BESTGNSSPOS -> "BEST_GNSS_POS"
      [] OTHER -> "GNSS"

\* The record carries the fields of frame f.
DecodedFrom(f, message) ==
    LET b == BodyOf(f.id, f.t)
        time == HeaderSeconds(WeekOf(f.t), MillisOf(f.t))
    IN  CASE f.id = HEADING ->
               message = [solution_status |-> b[1], position_type |-> b[2], heading |-> b[3],
                          pitch |-> b[4], measurement_time |-> time]
          [] f.id = INSPVAX ->
               message = [timestamp |-> time, ins_status |-> b[1], pos_type |-> b[2]]
          [] OTHER -> TRUE

\* Frame i of the stream was reported, at the unit that ends it, with its
\* own type and fields.
FrameEmitted(i) ==
    \E k \in 1 .. Len(emitted) :
        /\ emitted[k].at = scen.end[i]
        /\ emitted[k].type = TypeOfId(scen.frames[i].id)
        /\ DecodedFrom(scen.frames[i], emitted[k].message)

\* Somewhere in q, the two sync bytes and a header discriminator in a row.
HasSync(q) ==
    \E i \in 1 .. Len(q) - 2 :
        /\ q[i] = SYNC_0
        /\ q[i + 1] = SYNC_1
        /\ q[i + 2] \in {SYNC_2_LONG_HEADER, SYNC_2_SHORT_HEADER}

\* Corrupted input, a valid always-ready frame, and further input after it
\* that completes any long-header candidate frame the parser has begun.
ResyncCase == scen.kind = "resync" /\ scen.tail = LongTail

\* C1: after any corrupted units, a valid always-ready frame followed by
\* further input has been returned by GetMessage, with its type and the
\* record decoded from it, by the time the stream is read to its end.
C1_ResyncAfterAnyInput == (ResyncCase /\ Done) => FrameEmitted(1)

(***************************************************************************)
(* The stream read in one piece: the loop of GetMessage folded over a      *)
(* sequence of units handed over as a single range, the caller calling     *)
(* again after every message.                                              *)
(***************************************************************************)
RunState(buf, hl, tl, p, out) ==
    [buffer_ |-> buf, header_length_ |-> hl, total_length_ |-> tl, parser |-> p,
     emitted |-> out]

RECURSIVE InOnePiece(_, _, _)
InOnePiece(rs, units, read) ==
    IF units = << >> THEN rs
    ELSE LET r == LoopBody(rs.buffer_, rs.header_length_, rs.total_length_, rs.parser,
                           Head(units))
             out == IF r.type = "NONE" THEN rs.emitted
                    ELSE Append(rs.emitted, [type |-> r.type, at |-> read,
                                             message |-> MessageOf(r.st, r.type)])
             next == RunState(r.buffer_, r.header_length_, r.total_length_, r.st, out)
         IN  IF r.adv = 0 /\ next = rs THEN rs
             ELSE InOnePiece(next, IF r.adv = 1 THEN Tail(units) ELSE units, read + r.adv)

\* The parser as constructed for the scenario.
Fresh == RunState(<< >>, 0, 0, NewParser(scen.imu_type, scen.frame_mapping), << >>)

\* Every unit handed over so far has been read.
Drained == pc = "idle" /\ data_set /\ data_ = << >>

\* C2: however the stream is cut into ranges, once the units handed over
\* are read the messages returned so far, the accumulator and the records
\* are those of the same units handed over as one range.
C2_ChunkingInvariance ==
    Drained =>
        RunState(buffer_, header_length_, total_length_, parser, emitted)
            = InOnePiece(Fresh, SubSeq(stream, 1, fed), 0)

\* A range has ended inside the second frame: the first frame is reported
\* and the part of the second read so far waits in the accumulator.
C2_Witness ==
    /\ Drained
    /\ scen.kind = "pair"
    /\ scen.at[2] + SizeofLongHeader < fed /\ fed < scen.end[2]
    /\ Len(buffer_) = fed - scen.at[2]
    /\ total_length_ > 0
    /\ Len(emitted) = 1

(***************************************************************************)
(* Completed candidate frames.                                             *)
(***************************************************************************)
\* The loop is about to hand the completed candidate frame to PrepareMessage.
AtCompleteFrame ==
    /\ pc = "loop" /\ data_ # << >>
    /\ Len(buffer_) > 2 /\ header_length_ = 0
    /\ total_length_ > 0 /\ Len(buffer_) >= total_length_

\* The trailing checksum field of buf is the checksum of the units before it.
Intact(buf) ==
    /\ Len(buf) > CRC_LENGTH
    /\ buf = WithCrc(SubSeq(buf, 1, Len(buf) - CRC_LENGTH))

\* The step discards the frame: no record, calibration value or cached
\* status changes and GetMessage does not return.
Discards == parser' = parser /\ emitted' = emitted /\ pc' = "loop" /\ ret' = ret

\* The frame ids whose handlers have no readiness condition.
AlwaysReadyIds ==
    {GPSEPHEMERIS, BDSEPHEMERIS, GLOEPHEMERIS, HEADING, INSPVAX, RAWIMU, RAWIMUS, RAWIMUX,
     RAWIMUSX}

\* C3: a completed candidate frame whose checksum field differs from the
\* checksum of the units before it is discarded before dispatch: no record,
\* calibration value or cached status changes and nothing is returned.
C3_ChecksumBeforeTrust == [][(AtCompleteFrame /\ ~Intact(buffer_)) => Discards]_vars

\* A frame with an altered checksum byte has just been discarded whole.
C3_Witness ==
    /\ scen.kind = "pair"
    /\ scen.frames[1].kind = "badcrc"
    /\ Consumed = scen.end[1]
    /\ pc = "loop" /\ buffer_ = << >> /\ total_length_ = 0
    /\ parser = Fresh.parser
    /\ emitted = << >>

\* A frame with one altered checksum byte, then a valid frame.
AlteredThenValid ==
    /\ scen.kind = "pair"
    /\ scen.frames[1].kind = "badcrc"
    /\ scen.frames[2].kind = "valid"

\* C4: with a valid frame right after a frame that has one altered checksum
\* byte, nothing is returned for the altered frame, the altered frame is
\* dropped with exactly its own units read, and the valid frame is
\* accumulated from its first sync byte and, being always ready, returned.
C4_MalformedFrameRecovery ==
    AlteredThenValid =>
        /\ \A k \in 1 .. Len(emitted) : emitted[k].at > scen.end[1]
        /\ Consumed = scen.end[1] =>
              buffer_ \in { SubSeq(stream, 1, scen.end[1]), << >> }
        /\ (scen.end[1] < Consumed /\ Consumed < scen.end[2]) =>
              buffer_ = SubSeq(stream, scen.at[2] + 1, Consumed)
        /\ (Done /\ scen.frames[2].id \in AlwaysReadyIds) =>
              (Len(emitted) = 1 /\ FrameEmitted(2))

\* The altered frame is gone, the valid frame after it has been returned.
C4_Witness ==
    /\ AlteredThenValid
    /\ scen.frames[1].which = CRC_LENGTH
    /\ scen.frames[2].id = HEADING /\ ~scen.frames[2].long
    /\ Done
    /\ Len(emitted) = 1 /\ FrameEmitted(2)

\* C5: when the range handed over ends with the last checksum unit of a
\* valid always-ready frame, GetMessage has returned that frame's message
\* by the time it returns NONE for the range.
C5_ReportedAtRangeEnd ==
    (scen.kind = "resync" /\ ~HasSync(scen.pre) /\ Drained /\ ret = "NONE"
        /\ fed = scen.end[1])
    => FrameEmitted(1)

(***************************************************************************)
(* Readiness.                                                              *)
(***************************************************************************)
\* The frame ids that update the fused GNSS record.
GnssIds == {BESTPOS, PSRPOS, BESTVEL, BESTGNSSVEL, PSRVEL}

\* Two valid frames for the fused GNSS record with one nonzero header time.
GatedPair ==
    /\ scen.kind = "pair"
    /\ \A i \in 1 .. 2 : scen.frames[i].kind = "valid" /\ scen.frames[i].id \in GnssIds
    /\ scen.frames[1].t = scen.frames[2].t
    /\ HeaderSeconds(WeekOf(scen.frames[1].t), MillisOf(scen.frames[1].t)) # ZeroSeconds

\* C6: a fresh parser fed two valid frames for the fused GNSS record with
\* the same nonzero header time returns GNSS exactly once: not when the
\* first frame completes, and when the second completes.
C6_ReadinessGating ==
    GatedPair =>
        /\ Len(emitted) <= 1
        /\ \A k \in 1 .. Len(emitted) :
              emitted[k].type = "GNSS" /\ emitted[k].at = scen.end[2]
        /\ Done => Len(emitted) = 1

\* A velocity frame and a position frame of one time, GNSS returned once.
C6_Witness ==
    /\ GatedPair
    /\ scen.frames[1].id = BESTVEL /\ scen.frames[2].id = PSRPOS
    /\ Done
    /\ Len(emitted) = 1
    /\ emitted[1].message.measurement_time
         = HeaderSeconds(WeekOf(scen.frames[2].t), MillisOf(scen.frames[2].t))

\* The fixed body size of each frame id that has one.
ExpectedSize(id) ==
    CASE id \in {BESTGNSSPOS, BESTPOS, PSRPOS} -> SizeofBestPos
      [] id \in {BESTGNSSVEL, BESTVEL, PSRVEL} -> SizeofBestVel
      [] id \in {CORRIMUDATA, CORRIMUDATAS} -> SizeofCorrImuData
      [] id \in {INSCOV, INSCOVS} -> SizeofInsCov
      [] id \in {INSPVA, INSPVAS} -> SizeofInsPva
      [] id \in {RAWIMUX, RAWIMUSX} -> SizeofRawImuX
      [] id \in {RAWIMU, RAWIMUS} -> SizeofRawImu
      [] id = INSPVAX -> SizeofInsPvaX
      [] id = BDSEPHEMERIS -> SizeofBdsEphemeris
      [] id = GPSEPHEMERIS -> SizeofGpsEphemeris
      [] id = GLOEPHEMERIS -> SizeofGloEphemeris
      [] id = HEADING -> SizeofHeading
      [] OTHER -> 0 - 1

\* A checksum-valid frame of one of the ids, of the size fixed for its id,
\* is about to be dispatched.
AtValidFrameOf(ids) ==
    /\ AtCompleteFrame
    /\ Intact(buffer_)
    /\ HeaderOf(buffer_).message_id \in ids
    /\ HeaderOf(buffer_).message_length = ExpectedSize(HeaderOf(buffer_).message_id)

\* The step returns the message of the frame in the accumulator.
Emits ==
    LET type == TypeOfId(HeaderOf(buffer_).message_id)
    IN  /\ pc' = "idle"
        /\ ret' = type
        /\ emitted' = Append(emitted, [type |-> type, at |-> Consumed,
                                       message |-> MessageOf(parser', type)])

\* The step stores the covariances of the frame in the INS record and
\* returns nothing.
StoresCovariance ==
    /\ pc' = "loop" /\ emitted' = emitted /\ ret' = ret
    /\ parser'.ins_.position_covariance = Cov(HeaderOf(buffer_).message[1])
    /\ parser'.ins_.linear_velocity_covariance = Cov(HeaderOf(buffer_).message[3])

\* C7 with the covariance family among the always-ready ones: every
\* checksum-valid frame of the right size of the covariance, ephemeris,
\* heading, raw-inertial (supported device) and INSPVAX families is returned
\* as a message of its type, whatever its time and the frames before it.
C7_AlwaysReadyWithCovariance ==
    [][AtValidFrameOf(AlwaysReadyIds \cup {INSCOV, INSCOVS}) => Emits]_vars

\* C7: every checksum-valid frame of the right size of the ephemeris,
\* heading, raw-inertial (supported device) and INSPVAX families is returned
\* as a message of its type, whatever its time and the frames before it; a
\* covariance frame (INSCOV/INSCOVS) updates the INS record and is not
\* returned.
C7_AlwaysReady ==
    [][/\ AtValidFrameOf(AlwaysReadyIds) => Emits
       /\ AtValidFrameOf({INSCOV, INSCOVS}) => StoresCovariance]_vars

\* A covariance frame went by without a message, a heading frame at the
\* same time was returned after it.
C7_Witness ==
    /\ scen.kind = "pair"
    /\ scen.frames[1] = FrameDesc(TRUE, INSCOV, 1, "valid")
    /\ scen.frames[2] = FrameDesc(TRUE, HEADING, 1, "valid")
    /\ parser.ins_.position_covariance = Cov(BodyOf(INSCOV, 1)[1])
    /\ Len(emitted) = 1 /\ FrameEmitted(2)

\* C8: a checksum-valid frame of a known id other than RANGE whose declared
\* body length is not the size fixed for its id is discarded: no handler
\* runs, nothing is returned, no record or calibration value changes.
C8_LengthMismatch ==
    [][(/\ AtCompleteFrame
        /\ Intact(buffer_)
        /\ HeaderOf(buffer_).message_id \in KnownIds \ {RANGE}
        /\ HeaderOf(buffer_).message_length
             # ExpectedSize(HeaderOf(buffer_).message_id)) => Discards]_vars

\* A frame with one body unit too many has just been discarded whole.
C8_Witness ==
    /\ scen.kind = "pair"
    /\ scen.frames[1].kind = "badlen"
    /\ Consumed = scen.end[1]
    /\ pc = "loop" /\ buffer_ = << >> /\ total_length_ = 0
    /\ parser = Fresh.parser
    /\ emitted = << >>

(***************************************************************************)
(* Raw-inertial configuration.                                             *)
(***************************************************************************)
\* C9: with a frame-mapping selector other than 5 and 6 no raw-inertial
\* frame is returned as an IMU message.
C9_UnsupportedMappingDrops ==
    (scen.kind = "imu" /\ scen.frame_mapping \notin {5, 6}) =>
        \A k \in 1 .. Len(emitted) : emitted[k].type # "IMU"

\* The configured device has a zero sampling rate.
UnsupportedDevice ==
    scen.kind = "imu" /\ is_zero(GetImuParameter(scen.imu_type).sampling_rate_hz)

\* C10: with a device whose parameter entry has a zero sampling rate, every
\* raw-inertial frame is dropped without a message, the scales stay zero,
\* the IMU record and the previous-sample time stay as constructed, so each
\* further raw-inertial frame meets the same unset calibration.
C10_UnsupportedDevice ==
    UnsupportedDevice =>
        /\ emitted = << >>
        /\ parser.gyro_scale_ = 0 /\ parser.accel_scale_ = 0
        /\ parser.imu_ = Fresh.parser.imu_
        /\ parser.imu_measurement_time_previous_ = Fresh.parser.imu_measurement_time_previous_

\* Two raw-inertial frames went through an unsupported device's parser.
C10_Witness ==
    /\ UnsupportedDevice
    /\ Done
    /\ scen.frames[1].id = RAWIMUX /\ scen.frames[2].id = RAWIMU
    /\ emitted = << >>
    /\ parser.gyro_scale_ = 0

\* The calibration the parameter table gives the configured device.
TableCalibration ==
    LET param == GetImuParameter(scen.imu_type)
    IN  [gyro_scale |-> param.gyro_scale * param.sampling_rate_hz,
         accel_scale |-> param.accel_scale * param.sampling_rate_hz,
         span |-> SpanOfRate(param.sampling_rate_hz)]

\* C11: with a supported device, once the first raw-inertial frame (RAWIMU
\* or RAWIMUX) has been handled the calibration members hold the values of
\* the parameter table, so that no later frame derives them again, and
\* every frame is returned with the sample interval of the first.
C11_CalibratedOnFirstFrame ==
    (scen.kind = "imu" /\ ~UnsupportedDevice /\ emitted # << >>) =>
        /\ parser.gyro_scale_ = TableCalibration.gyro_scale
        /\ parser.accel_scale_ = TableCalibration.accel_scale
        /\ parser.imu_measurement_span_ = TableCalibration.span
        /\ \A k \in 1 .. Len(emitted) :
              emitted[k].message.measurement_span = emitted[1].message.measurement_span

(***************************************************************************)
(* The accumulator between frames.                                         *)
(***************************************************************************)
\* C12: the messages returned come in the order in which their frames end
\* in the stream, each for a frame of its type at the unit that ends it and
\* none after the message of a later frame, and the accumulator never holds
\* more than the one candidate frame it is working on.
C12_EmissionOrder ==
    /\ \A j, k \in 1 .. Len(emitted) : j < k => emitted[j].at < emitted[k].at
    /\ total_length_ > 0 => Len(buffer_) <= total_length_
    /\ scen.kind = "pair" =>
          \A k \in 1 .. Len(emitted) :
              \E i \in 1 .. 2 :
                  /\ emitted[k].at = scen.end[i]
                  /\ emitted[k].type = TypeOfId(scen.frames[i].id)

\* Two frames of different types have been returned, the earlier first.
C12_Witness ==
    /\ scen.kind = "pair"
    /\ Len(emitted) = 2
    /\ emitted[1].type = "HEADING" /\ emitted[1].at = scen.end[1]
    /\ emitted[2].type = "GPSEPHEMERIDES" /\ emitted[2].at = scen.end[2]

\* C13: the frame buffer never holds more than BUFFER_SIZE units, whatever
\* body length the headers in the input declare.
C13_BufferBound == Len(buffer_) <= BUFFER_SIZE

\* C14: the step that hands a completed candidate frame to PrepareMessage
\* leaves the buffer empty and header_length_ and total_length_ zero,
\* whatever PrepareMessage made of the frame, and leaves the unit under the
\* cursor to be looked at as a first sync byte.
C14_AccumulationReset ==
    [][AtCompleteFrame =>
          /\ buffer_' = << >>
          /\ header_length_' = 0
          /\ total_length_' = 0
          /\ data_' = data_]_vars

\* A covariance frame, for which the handler answered false, has been
\* handed over and the accumulator is back at its start.
C14_Witness ==
    /\ scen.kind = "pair"
    /\ scen.frames[1].id = INSCOV
    /\ Consumed = scen.end[1]
    /\ parser.ins_.position_covariance # FloatNaN
    /\ pc = "loop"
    /\ buffer_ = << >> /\ header_length_ = 0 /\ total_length_ = 0

(***************************************************************************)
(* The fused GNSS record.                                                  *)
(***************************************************************************)
\* A valid long-header BESTPOS frame (SOL_COMPUTED, SINGLE), then a valid
\* frame of one of the ids at the same time.
BestPosThen(ids) ==
    /\ scen.kind = "pair"
    /\ scen.frames[1].kind = "valid" /\ scen.frames[1].long
    /\ scen.frames[1].id = BESTPOS
    /\ scen.frames[2].kind = "valid"
    /\ scen.frames[2].id \in ids
    /\ scen.frames[2].t = scen.frames[1].t

\* GNSS has been returned at the end of the second frame with the position
\* and the type of the first.
FirstPositionEmitted ==
    LET pos == BodyOf(scen.frames[1].id, scen.frames[1].t)
    IN  \E k \in 1 .. Len(emitted) :
            /\ emitted[k].type = "GNSS"
            /\ emitted[k].at = scen.end[2]
            /\ emitted[k].message.position
                 = [lon |-> pos[4], lat |-> pos[3], height |-> pos[5] + pos[6]]
            /\ emitted[k].message.type = "SINGLE"

\* C15 with any fused-record frame second: a valid long-header BESTPOS frame
\* (SOL_COMPUTED, SINGLE) followed by a valid BESTPOS, PSRPOS, BESTVEL,
\* BESTGNSSVEL or PSRVEL frame of the same time makes GetMessage return GNSS
\* with the BESTPOS frame's longitude and latitude, height_msl + undulation
\* as height, and type SINGLE.
C15_BestPosThenAnyFusedFrame == (BestPosThen(GnssIds) /\ Done) => FirstPositionEmitted

\* C15: a valid long-header BESTPOS frame (SOL_COMPUTED, SINGLE) followed
\* by a valid velocity frame (BESTVEL, BESTGNSSVEL or PSRVEL) of the same
\* time makes GetMessage return GNSS with the BESTPOS frame's longitude and
\* latitude, height_msl + undulation as height, and type SINGLE.
C15_BestPosDecode ==
    (BestPosThen({BESTVEL, BESTGNSSVEL, PSRVEL}) /\ Done) => FirstPositionEmitted

\* The position of a BESTPOS frame has been returned on a PSRVEL frame.
C15_Witness ==
    /\ BestPosThen({PSRVEL})
    /\ Done
    /\ FirstPositionEmitted

(***************************************************************************)
(* The ephemeris record.                                                   *)
(***************************************************************************)
\* The orbit sub-records an ephemeris frame of a message type populates.
OrbitsOf(type) ==
    [keppler |-> type \in {"GPSEPHEMERIDES", "BDSEPHEMERIDES"},
     glonass |-> type = "GLOEPHEMERIDES"]

\* C16: the ephemeris record returned for a GPS, BeiDou or GLONASS frame
\* holds the orbit sub-record of that frame's constellation and no other:
\* nothing populated by an earlier ephemeris frame remains set in it.
C16_EphemerisOverwrite ==
    \A k \in 1 .. Len(emitted) :
        emitted[k].type \in {"GPSEPHEMERIDES", "BDSEPHEMERIDES", "GLOEPHEMERIDES"}
            => /\ emitted[k].message.has_keppler_orbit = OrbitsOf(emitted[k].type).keppler
               /\ emitted[k].message.has_glonass_orbit = OrbitsOf(emitted[k].type).glonass

(***************************************************************************)
(* Frames of an id the switch has no case for.                             *)
(***************************************************************************)
\* C17: a checksum-valid frame whose id has no case in the dispatch switch
\* returns nothing and changes no record, calibration value or cached
\* status; the accumulator is reset and the byte after the frame is the
\* next one examined.
C17_UnknownIdDiscarded ==
    [][(AtCompleteFrame /\ Intact(buffer_) /\ HeaderOf(buffer_).message_id \notin KnownIds)
         => /\ Discards
            /\ buffer_' = << >> /\ header_length_' = 0 /\ total_length_' = 0
            /\ data_' = data_]_vars

\* A valid HEADING frame was returned, then a checksum-valid frame of an
\* unknown id was consumed whole: nothing more was returned and the heading
\* record is as the first frame left it.
C17_Witness ==
    /\ scen.kind = "pair"
    /\ scen.frames[1] = FrameDesc(TRUE, HEADING, 1, "valid")
    /\ scen.frames[2] = FrameDesc(TRUE, UnknownId, 1, "valid")
    /\ Consumed = scen.end[2]
    /\ pc = "loop" /\ buffer_ = << >> /\ total_length_ = 0
    /\ Len(emitted) = 1 /\ emitted[1].type = "HEADING"
    /\ parser.heading_ = emitted[1].message
    /\ parser.ins_stat_ = NewParser(scen.imu_type, scen.frame_mapping).ins_stat_

(***************************************************************************)
(* The header variant.                                                     *)
(***************************************************************************)
\* The header size of the variant a third unit selects.
VariantSize(b) == IF b = SYNC_2_LONG_HEADER THEN SizeofLongHeader ELSE SizeofShortHeader

\* The accumulator sizes the header, and has read the declared length, by
\* the layout its third unit selects, which is the layout PrepareMessage
\* extracts the fields by.
VariantUsed ==
    Len(buffer_) >= 3 =>
        /\ buffer_[3] \in {SYNC_2_LONG_HEADER, SYNC_2_SHORT_HEADER}
        /\ header_length_ > 0 => header_length_ = VariantSize(buffer_[3])
        /\ header_length_ = 0 =>
              /\ Len(buffer_) >= VariantSize(buffer_[3])
              /\ total_length_ = VariantSize(buffer_[3]) + CRC_LENGTH
                                   + HeaderOf(buffer_).message_length

\* C18: for every frame the header is sized, and the declared length read,
\* by the layout the third accumulated unit selects, which is the layout
\* PrepareMessage reads id, length, week and milliseconds by; the third unit,
\* and with it the variant, does not change while the frame is accumulated.
C18_HeaderVariantConsistency ==
    /\ []VariantUsed
    /\ [][(Len(buffer_) >= 3 /\ Len(buffer_') >= 3) => buffer_'[3] = buffer_[3]]_vars

\* A checksum-valid short-header HEADING frame is about to be dispatched.
C18_Witness == AtValidFrameOf({HEADING}) /\ buffer_[3] = SYNC_2_SHORT_HEADER

(***************************************************************************)
(* The timestamp rule.                                                     *)
(***************************************************************************)
InsIds == {CORRIMUDATA, CORRIMUDATAS, INSPVA, INSPVAS}

\* The time a frame of the accumulator carries for its record: the header's
\* for the fused GNSS record, the body's for the INS record.
FrameTime(buf) ==
    LET h == HeaderOf(buf)
    IN  IF h.message_id \in InsIds
        THEN BodySeconds(h.message[1], h.message[2])
        ELSE HeaderSeconds(h.gps_week, h.gps_millisecs)

\* The measurement time of the record a frame of the id shares.
StoredTime(p, id) ==
    IF id \in InsIds THEN p.ins_.measurement_time ELSE p.gnss_.measurement_time

\* Two valid frames of one shared record, the first with a time other than
\* the one a new record holds, the second with a time other than the first's.
ChangingTimes ==
    /\ scen.kind = "pair"
    /\ \A i \in 1 .. 2 : scen.frames[i].kind = "valid"
    /\ \/ \A i \in 1 .. 2 : scen.frames[i].id \in GnssIds
       \/ \A i \in 1 .. 2 : scen.frames[i].id \in InsIds
    /\ scen.frames[1].t # 0
    /\ scen.frames[2].t # scen.frames[1].t

\* C19: a valid BESTPOS, PSRPOS, BESTVEL, BESTGNSSVEL, PSRVEL, CORRIMUDATA
\* or INSPVA frame is returned if and only if its time equals the
\* measurement time its record held before the frame; otherwise nothing is
\* returned and the record holds the frame's time afterwards.  Two frames
\* of one record whose times change from frame to frame return nothing.
C19_TimestampRule ==
    /\ [][AtValidFrameOf(GnssIds \cup InsIds) =>
            LET id == HeaderOf(buffer_).message_id
            IN  /\ StoredTime(parser', id) = FrameTime(buffer_)
                /\ StoredTime(parser, id) = FrameTime(buffer_) => Emits
                /\ StoredTime(parser, id) # FrameTime(buffer_) =>
                      pc' = "loop" /\ emitted' = emitted /\ ret' = ret]_vars
    /\ [](ChangingTimes => emitted = << >>)

\* A CORRIMUDATA frame stored its time and returned nothing; the INSPVA
\* frame of the same time was returned.
C19_Witness ==
    /\ scen.kind = "pair"
    /\ scen.frames[1] = FrameDesc(TRUE, CORRIMUDATA, 1, "valid")
    /\ scen.frames[2] = FrameDesc(TRUE, INSPVA, 1, "valid")
    /\ Done
    /\ Len(emitted) = 1
    /\ emitted[1].type = "INS" /\ emitted[1].at = scen.end[2]
    /\ emitted[1].message.measurement_time = BodySeconds(WeekOf(1), SecondsOf(1))

(***************************************************************************)
(* Aggregation of the frames of one time step.                             *)
(***************************************************************************)
\* Two valid long-header frames of the two ids, of one time.
SameStep(id1, id2) ==
    /\ scen.kind = "pair"
    /\ \A i \in 1 .. 2 : scen.frames[i].kind = "valid" /\ scen.frames[i].long
    /\ scen.frames[1].id = id1 /\ scen.frames[2].id = id2
    /\ scen.frames[2].t = scen.frames[1].t

\* The message returned at the end of the second frame, if any.
OnSecondFrame == { k \in 1 .. Len(emitted) : emitted[k].at = scen.end[2] }

\* BESTPOS then BESTVEL: GNSS is returned on the second frame with the
\* time of the step, the position of the first and the velocity of the
\* second.
FusedGnss ==
    LET t == scen.frames[1].t
        pos == BodyOf(BESTPOS, t)
        vel == BodyOf(BESTVEL, t)
    IN  \E k \in OnSecondFrame :
            /\ emitted[k].type = "GNSS"
            /\ emitted[k].message.measurement_time = HeaderSeconds(WeekOf(t), MillisOf(t))
            /\ emitted[k].message.position
                 = [lon |-> pos[4], lat |-> pos[3], height |-> pos[5] + pos[6]]
            /\ emitted[k].message.solution_status = pos[1]
            /\ emitted[k].message.velocity_latency = vel[2]
            /\ emitted[k].message.linear_velocity.speed = vel[3]
            /\ emitted[k].message.linear_velocity.z = vel[5]

\* CORRIMUDATA then INSPVA: INS is returned on the second frame with the
\* time of the step, the rates of the first and the pose of the second.
FusedIns ==
    LET t == scen.frames[1].t
        imu == BodyOf(CORRIMUDATA, t)
        pva == BodyOf(INSPVA, t)
        hz == parser.imu_measurement_hz_
    IN  \E k \in OnSecondFrame :
            /\ emitted[k].type = "INS"
            /\ emitted[k].message.measurement_time = BodySeconds(WeekOf(t), SecondsOf(t))
            /\ emitted[k].message.linear_acceleration
                 = rfu_to_flu(imu[6] * hz, imu[7] * hz, imu[8] * hz)
            /\ emitted[k].message.angular_velocity
                 = rfu_to_flu(imu[3] * hz, imu[4] * hz, imu[5] * hz)
            /\ emitted[k].message.position = [lon |-> pva[4], lat |-> pva[3], height |-> pva[5]]
            /\ emitted[k].message.linear_velocity = [x |-> pva[7], y |-> pva[6], z |-> pva[8]]

\* The fields of record r named in fs are left as they were by the step.
Keeps(r, fs) == \A f \in fs : parser'[r][f] = parser[r][f]

Covariances == {"position_covariance", "euler_angles_covariance", "linear_velocity_covariance"}

\* A step leaves alone the fields its frame does not write, and a step
\* that dispatches no frame leaves every record alone.
FieldsRetained ==
    /\ AtValidFrameOf({BESTVEL, BESTGNSSVEL, PSRVEL}) =>
          Keeps("gnss_", {"position", "solution_status", "position_type", "type"})
    /\ AtValidFrameOf({BESTPOS, PSRPOS}) =>
          Keeps("gnss_", {"has_velocity_latency", "velocity_latency", "linear_velocity"})
    /\ AtValidFrameOf({CORRIMUDATA, CORRIMUDATAS}) =>
          Keeps("ins_", {"position", "euler_angles", "linear_velocity", "type"} \cup Covariances)
    /\ AtValidFrameOf({INSPVA, INSPVAS}) =>
          Keeps("ins_", {"linear_acceleration", "angular_velocity"} \cup Covariances)
    /\ ~AtCompleteFrame => parser' = parser

\* C20: BESTPOS then BESTVEL of one time T return, on the second frame, a
\* GNSS record of time T holding the fields of both; CORRIMUDATA then
\* INSPVA of one time T return an INS record of time T holding the fields of
\* both; a field no frame writes keeps the value an earlier frame left and
\* no step resets it.
C20_Aggregation ==
    /\ []((SameStep(BESTPOS, BESTVEL) /\ Done) => FusedGnss)
    /\ []((SameStep(CORRIMUDATA, INSPVA) /\ Done) => FusedIns)
    /\ [][FieldsRetained]_vars

\* BESTPOS then BESTVEL of time 1 have been consumed and one GNSS record
\* holding both was returned on the second.
C20_Witness ==
    /\ SameStep(BESTPOS, BESTVEL) /\ scen.frames[1].t = 1
    /\ Done
    /\ Len(emitted) = 1
    /\ FusedGnss

(***************************************************************************)
(* The quality classes of a position frame.                                *)
(***************************************************************************)
\* The code table: the classes and the position type codes of each.
QualityTable ==
    [SINGLE |-> SingleCodes, PSRDIFF |-> PsrDiffCodes, RTK_FLOAT |-> RtkFloatCodes,
     RTK_INTEGER |-> RtkIntegerCodes, PPP |-> PppCodes, PROPAGATED |-> PropagatedCodes]

\* C21: after HandleBestPos the fused record's type is one of SINGLE,
\* PSRDIFF, RTK_FLOAT, RTK_INTEGER, PPP, PROPAGATED, INVALID; under a
\* status other than SOL_COMPUTED it is INVALID and position_type is 0
\* whatever the frame's code; under SOL_COMPUTED position_type is the
\* frame's code, the type is the class whose codes hold it, and INVALID for
\* a code of no class.
C21_QualityClassification ==
    [][AtValidFrameOf({BESTPOS, PSRPOS}) =>
         LET status == HeaderOf(buffer_).message[1]
             code == HeaderOf(buffer_).message[2]
             g == parser'.gnss_
         IN  /\ g.type \in DOMAIN QualityTable \cup {"INVALID"}
             /\ g.solution_status = status
             /\ status # SOL_COMPUTED => g.type = "INVALID" /\ g.position_type = 0
             /\ status = SOL_COMPUTED =>
                   /\ g.position_type = code
                   /\ \A class \in DOMAIN QualityTable :
                         g.type = class <=> code \in QualityTable[class]
                   /\ g.type = "INVALID" <=>
                         \A class \in DOMAIN QualityTable : code \notin QualityTable[class]]_vars

\* A frame of status INSUFFICIENT_OBS and an integer-RTK code, then one of
\* the same status and the code of SINGLE: the record returned on the second
\* is INVALID with position_type 0.
C21_Witness ==
    /\ scen.kind = "quality"
    /\ scen.frames[1].kind = "uncomputed" /\ scen.frames[1].which \in RtkIntegerCodes
    /\ scen.frames[2].kind = "uncomputed"
    /\ Len(emitted) = 1
    /\ emitted[1].message.type = "INVALID"
    /\ emitted[1].message.position_type = 0
    /\ emitted[1].message.solution_status = INSUFFICIENT_OBS

(***************************************************************************)
(* The cursor when a message is returned.                                  *)
(***************************************************************************)
\* Frame i is a valid frame of an always-ready type.
AlwaysReadyFrame(i) == scen.frames[i].kind = "valid" /\ scen.frames[i].id \in AlwaysReadyIds

\* Every message was returned with the cursor at the end of its frame, and
\* no frame's message twice.
ReturnedAtFrameEnd ==
    /\ \A k \in 1 .. Len(emitted) : \E i \in 1 .. 2 : emitted[k].at = scen.end[i]
    /\ \A j, k \in 1 .. Len(emitted) : j < k => emitted[j].at < emitted[k].at

\* C22: a message is returned with no unit read beyond the last of its
\* frame, and the calls on a range return the message of every frame in it,
\* once each and in order, before NONE is returned with the range exhausted.
C22_ReturnImmediately ==
    scen.kind = "pair" =>
        /\ ReturnedAtFrameEnd
        /\ (Drained /\ ret = "NONE") =>
              \A i \in 1 .. 2 : (AlwaysReadyFrame(i) /\ scen.end[i] <= fed) => FrameEmitted(i)

\* The same with the frames that end before the last unit of the range.
FramesBeforeRangeEndReturned ==
    scen.kind = "pair" =>
        /\ ReturnedAtFrameEnd
        /\ (Drained /\ ret = "NONE") =>
              \A i \in 1 .. 2 : (AlwaysReadyFrame(i) /\ scen.end[i] < fed) => FrameEmitted(i)

(***************************************************************************)
(* The observation record.                                                 *)
(***************************************************************************)
\* The satellites of an epoch whose constellation the output taxonomy has.
Recognized(obs) == SelectSeq(obs, LAMBDA u : gnss_sys_type(SatSystem(u)) # "NONE")

\* The epoch the frame i of the stream carries.
EpochOf(i) == BodyOf(scen.frames[i].id, scen.frames[i].t)

\* C23: the observation record returned for an epoch holds one satellite
\* record for every satellite of a recognized constellation, in order, those
\* after a satellite of an unrecognized constellation included.
C23_UnrecognizedSkipped ==
    scen.kind = "pair" =>
        \A k \in 1 .. Len(emitted), i \in 1 .. 2 :
            (emitted[k].type = "OBSERVATION" /\ emitted[k].at = scen.end[i]
                /\ scen.frames[i].kind = "valid")
            => LET sats == Recognized(EpochOf(i))
                   recs == emitted[k].message.sat_obs
               IN  /\ Len(recs) = Len(sats)
                   /\ \A n \in 1 .. Len(sats) :
                         /\ recs[n].sat_prn = SatPrn(sats[n])
                         /\ recs[n].sat_sys = gnss_sys_type(SatSystem(sats[n]))

\* C28: in every observation record returned, sat_obs_num is the number of
\* satellite records populated and each satellite's band_obs_num is the
\* number of its band records.
C28_ObservationCounts ==
    \A k \in 1 .. Len(emitted) :
        emitted[k].type = "OBSERVATION" =>
            LET o == emitted[k].message
            IN  /\ o.sat_obs_num = Len(o.sat_obs)
                /\ \A n \in 1 .. Len(o.sat_obs) :
                      o.sat_obs[n].band_obs_num = Len(o.sat_obs[n].band_obs)

(***************************************************************************)
(* The calibration values.                                                 *)
(***************************************************************************)
RawInertialIds == {RAWIMU, RAWIMUS, RAWIMUX, RAWIMUSX}

\* The gyro scale, accelerometer scale, sample rate, sample interval and
\* previous-sample time of a parser.
Calibration(p) ==
    << p.gyro_scale_, p.accel_scale_, p.imu_measurement_hz_, p.imu_measurement_span_,
       p.imu_measurement_time_previous_ >>

\* C24: a step changes the gyro scale, accelerometer scale, sample rate,
\* sample interval or previous-sample time only when it dispatches a
\* checksum-valid raw-inertial frame of the size fixed for its id: the
\* other handlers and every discarded frame leave them alone.  Scales once
\* set to non-zero values are not changed by any step.
C24_CalibrationFrame ==
    [][/\ Calibration(parser') # Calibration(parser) => AtValidFrameOf(RawInertialIds)
       /\ (parser.gyro_scale_ # 0 /\ parser.accel_scale_ # 0) =>
             /\ parser'.gyro_scale_ = parser.gyro_scale_
             /\ parser'.accel_scale_ = parser.accel_scale_]_vars

\* A RAWIMUX frame has set the scales and the previous-sample time, and a
\* CORRIMUDATA frame of a later time was handled after it.
C24_Witness ==
    /\ scen.kind = "pair"
    /\ scen.frames[1] = FrameDesc(TRUE, RAWIMUX, 1, "valid")
    /\ scen.frames[2] = FrameDesc(TRUE, CORRIMUDATA, 2, "valid")
    /\ Done
    /\ parser.gyro_scale_ # 0 /\ parser.accel_scale_ # 0
    /\ parser.imu_measurement_time_previous_ = BodySeconds(WeekOf(1), SecondsOf(1))
    /\ parser.ins_.measurement_time = BodySeconds(WeekOf(2), SecondsOf(2))

(***************************************************************************)
(* Termination of GetMessage.                                              *)
(***************************************************************************)
\* The accumulator states whose iteration reads a unit whatever the unit:
\* empty, or short of the declared length with the header read.
ReadsNext(buf, hl, tl) == buf = << >> \/ (Len(buf) > 2 /\ hl = 0 /\ Len(buf) < tl)

\* An iteration reads one unit, or returns a message, or reads none and
\* leaves an accumulator whose next iteration reads one.
IterationAdvances ==
    (pc = "loop" /\ data_ # << >>) =>
        /\ \/ data_' = Tail(data_)
           \/ data_' = data_ /\ pc' = "idle" /\ ret' # "NONE"
           \/ data_' = data_ /\ pc' = "loop"
                /\ ReadsNext(buffer_', header_length_', total_length_')
        /\ ReadsNext(buffer_, header_length_, total_length_) => data_' = Tail(data_)

\* C25: every call of GetMessage on a finite range returns: each iteration
\* reads one unit or is followed by one that does, a call returns a message
\* or NONE, and NONE only with the whole range read.
C25_Terminates ==
    /\ [][IterationAdvances]_vars
    /\ [][(pc = "loop" /\ pc' = "idle" /\ ret' = "NONE") => data_ = << >>]_vars
    /\ (pc = "loop") ~> (pc = "idle")

\* A call has returned NONE over a range of corrupted input that held a
\* first sync byte not followed by the second.
C25_Witness ==
    /\ scen.kind = "stray"
    /\ Len(scen.pre) >= 2 /\ scen.pre[1] = SYNC_0 /\ scen.pre[2] = SYNC_2_LONG_HEADER
    /\ fed = 2 /\ Drained /\ ret = "NONE"
    /\ buffer_ = << >>

(***************************************************************************)
(* A mismatch while seeking the sync bytes.                                *)
(***************************************************************************)
\* q holds no frame start and ends in a first sync byte, or in the first
\* and the second: the first unit after q meets an accumulator waiting for
\* the second sync byte or for the header discriminator.
EndsInSync(q) ==
    /\ ~HasSync(q)
    /\ \/ Len(q) >= 1 /\ q[Len(q)] = SYNC_0
       \/ Len(q) >= 2 /\ q[Len(q) - 1] = SYNC_0 /\ q[Len(q)] = SYNC_1

\* The iteration meets a unit that does not match at the second sync
\* position or at the discriminator position.
SyncMismatch ==
    /\ pc = "loop" /\ data_ # << >>
    /\ \/ Len(buffer_) = 1 /\ Head(data_) # SYNC_1
       \/ Len(buffer_) = 2 /\ Head(data_) \notin {SYNC_2_LONG_HEADER, SYNC_2_SHORT_HEADER}

\* C26: a unit that does not match at the second sync position or at the
\* discriminator position clears the accumulator and is not read past, so
\* it is examined again as a first sync byte; a frame whose first sync byte
\* is that unit is accumulated whole, from that unit.
C26_NoSyncByteLost ==
    /\ [][SyncMismatch => buffer_' = << >> /\ data_' = data_ /\ pc' = "loop"]_vars
    /\ [][(scen.kind = "stray" /\ EndsInSync(scen.pre)
               /\ Consumed # scen.end[1] /\ Consumed' = scen.end[1])
            => buffer_' = FrameBytes(scen.frames[1])]_vars

\* After the first and second sync bytes, a long-header frame: its first
\* sync byte did not match as a discriminator, and the frame is in the
\* accumulator whole.
C26_Witness ==
    /\ scen.kind = "stray"
    /\ scen.pre = << SYNC_0, SYNC_1 >>
    /\ scen.frames[1].long
    /\ Consumed = scen.end[1]
    /\ buffer_ = FrameBytes(scen.frames[1])

(***************************************************************************)
(* The accumulator between iterations.                                     *)
(***************************************************************************)
\* C27: between iterations header_length_ and total_length_ are never both
\* non-zero; a buffer of three units or more has exactly one of them
\* non-zero and starts with the two sync bytes and a header discriminator;
\* under a set header_length_ the buffer is no longer than the header, under
\* a set total_length_ it is no shorter than the header and no longer than
\* total_length_; and a non-empty buffer always has a branch of the loop
\* that advances it.
C27_AccumulatorWellFormed ==
    /\ ~(header_length_ > 0 /\ total_length_ > 0)
    /\ header_length_ >= 0 /\ total_length_ >= 0
    /\ Len(buffer_) >= 3 =>
          /\ (header_length_ > 0) # (total_length_ > 0)
          /\ buffer_[1] = SYNC_0 /\ buffer_[2] = SYNC_1
          /\ buffer_[3] \in {SYNC_2_LONG_HEADER, SYNC_2_SHORT_HEADER}
    /\ header_length_ > 0 =>
          /\ Len(buffer_) >= 3
          /\ Len(buffer_) <= VariantSize(buffer_[3])
    /\ total_length_ > 0 =>
          /\ Len(buffer_) >= 3
          /\ Len(buffer_) >= VariantSize(buffer_[3])
          /\ Len(buffer_) <= total_length_
    /\ buffer_ # << >> =>
          Len(buffer_) \in {1, 2} \/ header_length_ > 0 \/ total_length_ > 0

\* Corrupted input that reads as the start of a long-header frame: the
\* length it declared is set and the accumulator is past the header.
C27_Witness ==
    /\ scen.kind = "resync"
    /\ scen.pre = << SYNC_0, SYNC_1, SYNC_2_LONG_HEADER >>
    /\ header_length_ = 0
    /\ total_length_ = SizeofLongHeader + CRC_LENGTH + SYNC_2_LONG_HEADER
    /\ Len(buffer_) > SizeofLongHeader

====
